---- MODULE Spec2Model ----
(***************************************************************************)
(* Model of the venom metrics toolchain: the aggregator's merge kernel and *)
(* AggregateMetrics loop, the DPN cardinality controller and the metrics   *)
(* collector.                                                              *)
(*                                                                         *)
(* Conventions                                                             *)
(*  - a float64 is an exact rational <<n, d>> in lowest terms, d > 0;      *)
(*    <<0, 0>> stands for a map value that is not a number;                *)
(*  - a Go map is a TLA+ function whose DOMAIN is the set of keys present; *)
(*  - a metric name is the sequence of its "_"-separated tokens, so that   *)
(*    strings.HasPrefix(name, global + "_") is a proper-prefix test.       *)
(***************************************************************************)
EXTENDS Integers, Sequences, FiniteSets, TLC

VARIABLES
    prog,               \* which program this run is: "aggregate", "dpn", "merge", "assoc", "collect"
    \* ---- merge kernel driver (mergeMetric applied to drawn inputs)
    target, source, prev, nMerges,
    \* ---- associativity driver
    third, assocL, assocR,
    \* ---- AggregateMetrics
    config, metricsList, idx, pending, result, endpointMap, endpointCount,
    endpointsBucketed, aggPc,
    \* ---- the clock read by AggregateMetrics, the StartTime and EndTime of the
    \* ---- snapshots of metricsList and those of result
    now, sourceTimes, resultTimes,
    \* ---- DPNState, the keys it has returned and the last of them
    dpn, dpnKeys, dpnLast, dpnCalls,
    \* ---- metricsCollector
    mc, snapshot, nRecorded,
    \* ---- the calls made on the path normalizer: path, key returned, state used
    returned,
    \* ---- ThresholdConfig, the metrics it validates, the thresholds it has
    \* ---- resolved and the outcome of ValidateThresholds
    tc, thMetrics, resolutions, validation,
    \* ---- the --fail-on-breaches flag and the error of checkThresholdBreaches
    breachCheck,
    \* ---- AggregateFiles: the files on disk that inputFiles names, the ingest
    \* ---- goroutines, the WaitGroup counter, the results channel, the position
    \* ---- of the calling goroutine, allMetrics, what the call came to, whether
    \* ---- the report was written, and the outcomes of the calls before this one
    inputFiles, workers, wg, results, filesPc, allMetrics, outcome, written, calls

kernelVars == <<target, source, prev, nMerges>>
assocVars == <<third, assocL, assocR>>
aggVars == <<config, metricsList, idx, pending, result, endpointMap, endpointCount,
             endpointsBucketed, aggPc, now, sourceTimes, resultTimes>>
dpnVars == <<dpn, dpnKeys, dpnLast, dpnCalls>>
mcVars == <<mc, snapshot, nRecorded>>
normVars == <<returned>>
thVars == <<tc, thMetrics, resolutions, validation, breachCheck>>
filesVars == <<inputFiles, workers, wg, results, filesPc, allMetrics, outcome, written, calls>>
vars == <<prog, kernelVars, assocVars, aggVars, dpnVars, mcVars, normVars, thVars, filesVars>>

(***************************************************************************)
(* float64 arithmetic, exact                                               *)
(***************************************************************************)
RECURSIVE GCD(_, _)
GCD(a, b) == IF b = 0 THEN a ELSE GCD(b, a % b)

\* n/d in lowest terms; x/0 is +Inf, written <<1, 0>>
Norm(n, d) ==
    IF d = 0 THEN <<1, 0>>
    ELSE IF n = 0 THEN <<0, 1>>
    ELSE LET g == GCD(n, d) IN <<n \div g, d \div g>>

R(n) == <<n, 1>>
Zero == <<0, 1>>
NotANumber == <<0, 0>>
\* math.MaxFloat64: above every value the model draws
MaxFloat64 == <<1000000, 1>>

RAdd(a, b) == Norm(a[1] * b[2] + b[1] * a[2], a[2] * b[2])
RSub(a, b) == Norm(a[1] * b[2] - b[1] * a[2], a[2] * b[2])
RMul(a, b) == Norm(a[1] * b[1], a[2] * b[2])
RDiv(a, b) == Norm(a[1] * b[2], a[2] * b[1])
RLe(a, b) == a[1] * b[2] <= b[1] * a[2]
RLt(a, b) == a[1] * b[2] < b[1] * a[2]
RMin(a, b) == IF RLe(a, b) THEN a ELSE b
RMax(a, b) == IF RLe(a, b) THEN b ELSE a

(***************************************************************************)
(* Metric.Values, a map[string]interface{}                                 *)
(***************************************************************************)
Put(values, key, v) ==
    [k \in DOMAIN values \cup {key} |-> IF k = key THEN v ELSE values[k]]

getFloat64(values, key, defaultValue) ==
    IF key \in DOMAIN values /\ values[key] # NotANumber
    THEN values[key]
    ELSE defaultValue

cloneMetric(metric) ==
    [Type |-> metric.Type, Values |-> [k \in DOMAIN metric.Values |-> metric.Values[k]]]

percentiles == <<"p(50)", "p(90)", "p(95)", "p(99)">>
Percentiles == {percentiles[i] : i \in 1..Len(percentiles)}

(***************************************************************************)
(* mergeTrendMetric: the target after the merge                            *)
(***************************************************************************)
\* the percentile loop: a key is re-weighted only when both sides hold it
MergePercentilesImportSource(tv, sv, targetCount, sourceCount, totalCount) ==
    [k \in DOMAIN tv \cup (Percentiles \cap DOMAIN sv) |->
        IF k \in Percentiles /\ k \in DOMAIN tv /\ k \in DOMAIN sv
        THEN RDiv(RAdd(RMul(getFloat64(tv, k, Zero), targetCount),
                       RMul(getFloat64(sv, k, Zero), sourceCount)), totalCount)
        ELSE IF k \in DOMAIN tv THEN tv[k] ELSE sv[k]]

MergePercentiles(tv, sv, targetCount, sourceCount, totalCount) ==
    [k \in DOMAIN tv |->
        IF k \in Percentiles /\ k \in DOMAIN sv
        THEN RDiv(RAdd(RMul(getFloat64(tv, k, Zero), targetCount),
                       RMul(getFloat64(sv, k, Zero), sourceCount)), totalCount)
        ELSE tv[k]]

mergeTrendMetricUnweighted(tgt, src, mergeStrategy) ==
    LET tv == tgt.Values
        sv == src.Values
        targetCount == getFloat64(tv, "count", Zero)
        sourceCount == getFloat64(sv, "count", Zero)
        totalCount == RAdd(targetCount, sourceCount)
        v1 == Put(tv, "count", totalCount)
        v2 == Put(v1, "min", RMin(getFloat64(v1, "min", MaxFloat64),
                                  getFloat64(sv, "min", MaxFloat64)))
        v3 == Put(v2, "max", RMax(getFloat64(v2, "max", Zero),
                                  getFloat64(sv, "max", Zero)))
        v4 == Put(v3, "avg", RDiv(RAdd(getFloat64(v3, "avg", Zero),
                                       getFloat64(sv, "avg", Zero)), R(2)))
        v5 == [k \in DOMAIN v4 |->
                IF k \in Percentiles /\ k \in DOMAIN sv
                THEN RDiv(RAdd(getFloat64(v4, k, Zero), getFloat64(sv, k, Zero)), R(2))
                ELSE v4[k]]
        v6 == Put(v5, "rate", RDiv(totalCount, getFloat64(v5, "duration", R(1))))
    IN  IF totalCount = Zero THEN tgt ELSE [Type |-> tgt.Type, Values |-> v6]

mergeTrendMetric(tgt, src, mergeStrategy) ==
    LET tv == tgt.Values
        sv == src.Values
        targetCount == getFloat64(tv, "count", Zero)
        sourceCount == getFloat64(sv, "count", Zero)
        totalCount == RAdd(targetCount, sourceCount)
        v1 == Put(tv, "count", totalCount)
        v2 == Put(v1, "min", RMin(getFloat64(v1, "min", MaxFloat64),
                                  getFloat64(sv, "min", MaxFloat64)))
        v3 == Put(v2, "max", RMax(getFloat64(v2, "max", Zero),
                                  getFloat64(sv, "max", Zero)))
        targetAvg == getFloat64(v3, "avg", Zero)
        sourceAvg == getFloat64(sv, "avg", Zero)
        totalSum == RAdd(RMul(targetAvg, targetCount), RMul(sourceAvg, sourceCount))
        v4 == Put(v3, "avg", RDiv(totalSum, totalCount))
        v5 == MergePercentiles(v4, sv, targetCount, sourceCount, totalCount)
        v6 == IF RLt(Zero, totalCount)
              THEN Put(v5, "rate", RDiv(totalCount, getFloat64(v5, "duration", R(1))))
              ELSE v5
    IN  IF totalCount = Zero THEN tgt ELSE [Type |-> tgt.Type, Values |-> v6]

(***************************************************************************)
(* mergeCounterMetric, mergeRateMetric, mergeGaugeMetric                   *)
(***************************************************************************)
mergeCounterMetric(tgt, src) ==
    LET tv == tgt.Values
        sv == src.Values
        targetCount == getFloat64(tv, "count", Zero)
        sourceCount == getFloat64(sv, "count", Zero)
        totalCount == RAdd(targetCount, sourceCount)
        v1 == Put(tv, "count", totalCount)
        v2 == IF RLt(Zero, totalCount)
              THEN Put(v1, "rate", RDiv(totalCount, getFloat64(v1, "duration", R(1))))
              ELSE v1
    IN  [Type |-> tgt.Type, Values |-> v2]

mergeRateMetricKeepValue(tgt, src) ==
    LET tv == tgt.Values
        sv == src.Values
        totalPasses == RAdd(getFloat64(tv, "passes", Zero), getFloat64(sv, "passes", Zero))
        totalFails == RAdd(getFloat64(tv, "fails", Zero), getFloat64(sv, "fails", Zero))
    IN  [Type |-> tgt.Type,
         Values |-> Put(Put(tv, "passes", totalPasses), "fails", totalFails)]

mergeRateMetric(tgt, src) ==
    LET tv == tgt.Values
        sv == src.Values
        targetPasses == getFloat64(tv, "passes", Zero)
        sourcePasses == getFloat64(sv, "passes", Zero)
        targetFails == getFloat64(tv, "fails", Zero)
        sourceFails == getFloat64(sv, "fails", Zero)
        v1 == Put(tv, "passes", RAdd(targetPasses, sourcePasses))
        v2 == Put(v1, "fails", RAdd(targetFails, sourceFails))
        totalPasses == RAdd(targetPasses, sourcePasses)
        totalFails == RAdd(targetFails, sourceFails)
        total == RAdd(totalPasses, totalFails)
        v3 == IF RLt(Zero, total) THEN Put(v2, "value", RDiv(totalPasses, total)) ELSE v2
    IN  [Type |-> tgt.Type, Values |-> v3]

mergeGaugeMetric(tgt, src) ==
    LET tv == tgt.Values
        sv == src.Values
        numeric == {k \in DOMAIN sv : sv[k] # NotANumber}
    IN  [Type |-> tgt.Type,
         Values |-> [k \in DOMAIN tv \cup numeric |->
                        IF k \notin numeric THEN tv[k]
                        ELSE IF k \notin DOMAIN tv THEN sv[k]
                        ELSE IF tv[k] # NotANumber THEN RMax(tv[k], sv[k])
                        ELSE tv[k]]]

(***************************************************************************)
(* mergeMetric: dispatch on the target's kind                              *)
(***************************************************************************)
mergeMetricAnyKind(tgt, src, mergeStrategy) ==
    CASE tgt.Type = "trend" -> mergeTrendMetric(tgt, src, mergeStrategy)
      [] tgt.Type = "counter" -> mergeCounterMetric(tgt, src)
      [] tgt.Type = "rate" -> mergeRateMetric(tgt, src)
      [] tgt.Type = "gauge" -> mergeGaugeMetric(tgt, src)
      [] OTHER -> tgt

mergeMetric(tgt, src, mergeStrategy) ==
    IF tgt.Type # src.Type THEN tgt
    ELSE CASE tgt.Type = "trend" -> mergeTrendMetric(tgt, src, mergeStrategy)
           [] tgt.Type = "counter" -> mergeCounterMetric(tgt, src)
           [] tgt.Type = "rate" -> mergeRateMetric(tgt, src)
           [] tgt.Type = "gauge" -> mergeGaugeMetric(tgt, src)
           [] OTHER -> tgt

(***************************************************************************)
(* Metrics drawn as inputs.  Every trend below has count >= 0, its min,    *)
(* avg and max in order and its percentiles in order, as far as it holds   *)
(* them.                                                                   *)
(***************************************************************************)
Restrict(f, S) == [k \in DOMAIN f \cap S |-> f[k]]

Metric(type, values) == [Type |-> type, Values |-> values]

\* the pair merged by TestMergeTrendMetric
TestTrendTarget ==
    Metric("trend", ("count" :> R(2)) @@ ("avg" :> R(100)) @@ ("min" :> R(50))
                    @@ ("max" :> R(150)) @@ ("p(90)" :> R(140)))
TestTrendSource ==
    Metric("trend", ("count" :> R(3)) @@ ("avg" :> R(200)) @@ ("min" :> R(100))
                    @@ ("max" :> R(300)) @@ ("p(90)" :> R(280)))

\* the pair merged by TestMergeRateMetric
TestRateTarget ==
    Metric("rate", ("passes" :> R(8)) @@ ("fails" :> R(2)) @@ ("value" :> Norm(4, 5)))
TestRateSource ==
    Metric("rate", ("passes" :> R(9)) @@ ("fails" :> R(1)) @@ ("value" :> Norm(9, 10)))

StatTriples == {<<10, 10, 10>>, <<20, 30, 40>>, <<50, 50, 50>>}
SampleCounts == {0, 1, 2}

\* trends holding count and avg, and min and max or not
StatsTrends ==
    {Metric("trend",
            Restrict(("count" :> R(c)) @@ ("min" :> R(t[1])) @@ ("avg" :> R(t[2]))
                     @@ ("max" :> R(t[3])), keys)) :
        c \in SampleCounts, t \in StatTriples,
        keys \in {{"count", "min", "avg", "max"}, {"count", "avg", "max"},
                  {"count", "min", "avg"}, {"count", "avg"}}}

\* trends holding only count, min, max and avg
FullStatsTrends == {m \in StatsTrends : DOMAIN m.Values = {"count", "min", "avg", "max"}}

PercentileProfiles ==
    {("p(50)" :> R(10)) @@ ("p(90)" :> R(20)) @@ ("p(95)" :> R(30)) @@ ("p(99)" :> R(40)),
     ("p(50)" :> R(60)) @@ ("p(90)" :> R(60)) @@ ("p(95)" :> R(70)) @@ ("p(99)" :> R(90))}
PercentileSubsets ==
    {{}, {"p(50)"}, {"p(50)", "p(90)"}, {"p(90)", "p(95)", "p(99)"}, Percentiles}

\* trends that differ in the percentiles they hold
PercentileTrends ==
    {Metric("trend",
            ("count" :> R(c)) @@ ("min" :> R(5)) @@ ("avg" :> R(50)) @@ ("max" :> R(95))
            @@ Restrict(p, keys)) :
        c \in {1, 2}, p \in PercentileProfiles, keys \in PercentileSubsets}

RateMetrics ==
    {TestRateTarget, TestRateSource,
     Metric("rate", ("passes" :> R(0)) @@ ("fails" :> R(0)) @@ ("value" :> R(0))),
     Metric("rate", ("passes" :> R(0)) @@ ("fails" :> R(0)) @@ ("value" :> R(1))),
     Metric("rate", ("passes" :> R(0)) @@ ("fails" :> R(3)) @@ ("value" :> R(0))
                    @@ ("thresholds" :> NotANumber)),
     Metric("rate", ("value" :> Norm(1, 2)))}

CounterMetrics ==
    {Metric("counter", ("count" :> R(10)) @@ ("rate" :> R(5))),
     Metric("counter", ("count" :> R(0)))}

GaugeMetrics ==
    {Metric("gauge", ("value" :> R(1)) @@ ("min" :> R(1)) @@ ("max" :> R(1))),
     Metric("gauge", ("value" :> R(3)) @@ ("max" :> R(4)))}

KernelMetrics ==
    StatsTrends \cup PercentileTrends \cup {TestTrendTarget, TestTrendSource}
    \cup RateMetrics \cup CounterMetrics \cup GaugeMetrics

(***************************************************************************)
(* Values of the variables a run does not use                              *)
(***************************************************************************)
NoMetric == Metric("none", <<>>)
IdleKernel ==
    /\ target = NoMetric /\ source = NoMetric /\ prev = NoMetric /\ nMerges = 0
IdleAssoc ==
    /\ third = NoMetric /\ assocL = NoMetric /\ assocR = NoMetric
IdleAggregate ==
    /\ config = [MaxEndpoints |-> 0, NoBucket |-> FALSE, MergePercentiles |-> "weighted"]
    /\ metricsList = <<>> /\ idx = 0 /\ pending = {} /\ result = <<>> /\ endpointMap = <<>>
    /\ endpointCount = 0 /\ endpointsBucketed = 0 /\ aggPc = "idle"
    /\ now = 0 /\ sourceTimes = <<>> /\ resultTimes = <<>>
IdleDPN ==
    /\ dpn = <<>> /\ dpnKeys = {} /\ dpnLast = <<>> /\ dpnCalls = 0
IdleCollector ==
    /\ mc = <<>> /\ snapshot = <<>> /\ nRecorded = 0
IdleNormalize ==
    /\ returned = <<>>
IdleThresholds ==
    /\ tc = <<>> /\ thMetrics = <<>> /\ resolutions = <<>> /\ validation = <<>>
    /\ breachCheck = <<>>
IdleFiles ==
    /\ inputFiles = <<>> /\ workers = <<>> /\ wg = 0 /\ results = <<>> /\ filesPc = "idle"
    /\ allMetrics = <<>> /\ outcome = <<>> /\ written = FALSE /\ calls = <<>>

(***************************************************************************)
(* Merge kernel driver: mergeMetric applied to drawn targets and sources,  *)
(* the result being the target of the next merge.                          *)
(***************************************************************************)
MaxMerges == 2

InitMerge ==
    /\ prog = "merge"
    /\ target \in KernelMetrics
    /\ source = NoMetric /\ prev = NoMetric /\ nMerges = 0
    /\ IdleAssoc /\ IdleAggregate /\ IdleDPN /\ IdleCollector /\ IdleNormalize /\ IdleThresholds
    /\ IdleFiles

MergeStep ==
    /\ prog = "merge"
    /\ nMerges < MaxMerges
    /\ \E s \in KernelMetrics :
        /\ source' = s
        /\ prev' = target
        /\ target' = mergeMetric(target, s, "weighted")
    /\ nMerges' = nMerges + 1
    /\ UNCHANGED <<prog, filesVars, normVars, thVars, assocVars, aggVars, dpnVars, mcVars>>

NextMerge == MergeStep
SpecMerge == InitMerge /\ [][NextMerge]_vars

(***************************************************************************)
(* Associativity driver: (A merged with B) merged with C against           *)
(* A merged with (B merged with C), on trends of count, min, max, avg.     *)
(***************************************************************************)
InitAssoc ==
    /\ prog = "assoc"
    /\ target \in FullStatsTrends /\ source \in FullStatsTrends /\ third \in FullStatsTrends
    /\ prev = NoMetric /\ nMerges = 0
    /\ assocL = NoMetric /\ assocR = NoMetric
    /\ IdleAggregate /\ IdleDPN /\ IdleCollector /\ IdleNormalize /\ IdleThresholds
    /\ IdleFiles

MergeBothWays ==
    /\ prog = "assoc"
    /\ nMerges = 0
    /\ assocL' = mergeMetric(mergeMetric(target, source, "weighted"), third, "weighted")
    /\ assocR' = mergeMetric(target, mergeMetric(source, third, "weighted"), "weighted")
    /\ nMerges' = 1
    /\ UNCHANGED <<prog, filesVars, normVars, thVars, target, source, prev, third, aggVars, dpnVars, mcVars>>

NextAssoc == MergeBothWays
SpecAssoc == InitAssoc /\ [][NextAssoc]_vars

(***************************************************************************)
(* Claims on the merge kernel                                              *)
(***************************************************************************)
Has(m, k) == k \in DOMAIN m.Values
Val(m, k) == m.Values[k]
BothTrend == nMerges > 0 /\ prev.Type = "trend" /\ source.Type = "trend"
BothRate == nMerges > 0 /\ prev.Type = "rate" /\ source.Type = "rate"

\* count >= 0, min <= avg <= max and p(50) <= p(90) <= p(95) <= p(99), over the keys held
TrendOrdered(m) ==
    /\ Has(m, "count") => RLe(Zero, Val(m, "count"))
    /\ Has(m, "min") /\ Has(m, "avg") => RLe(Val(m, "min"), Val(m, "avg"))
    /\ Has(m, "avg") /\ Has(m, "max") => RLe(Val(m, "avg"), Val(m, "max"))
    /\ Has(m, "min") /\ Has(m, "max") => RLe(Val(m, "min"), Val(m, "max"))
    /\ \A i, j \in 1..Len(percentiles) :
        i < j /\ Has(m, percentiles[i]) /\ Has(m, percentiles[j])
        => RLe(Val(m, percentiles[i]), Val(m, percentiles[j]))

\* C2: every trend drawn as a source satisfies count >= 0, min <= avg <= max and
\* ordered percentiles; the claim is that every trend reached by merging them
\* still does.  (The code breaks it: see C2_Sources_Ordered for the premise.)
C2_TrendInvariantsPreserved ==
    prog = "merge" /\ target.Type = "trend" => TrendOrdered(target)

\* the premise of C2 holds of every drawn metric
C2_Sources_Ordered ==
    prog = "merge" =>
        /\ nMerges = 0 /\ target.Type = "trend" => TrendOrdered(target)
        /\ nMerges > 0 /\ source.Type = "trend" => TrendOrdered(source)

Weighted(x_t, n_t, x_s, n_s) ==
    RDiv(RAdd(RMul(x_t, n_t), RMul(x_s, n_s)), RAdd(n_t, n_s))

\* C3: a merge of two trends with n = n_t + n_s > 0 sets count to n, min to the
\* smaller min, max to the larger max, avg to the count-weighted mean of the avgs
\* and every percentile held by both to its count-weighted mean; the pair of
\* TestMergeTrendMetric gives count 5, avg 160, min 50, max 300, p(90) 224.
C3_TrendMergeFormulas ==
    BothTrend /\ Has(prev, "count") /\ Has(source, "count")
    /\ RLt(Zero, RAdd(Val(prev, "count"), Val(source, "count")))
    => LET n_t == Val(prev, "count")
           n_s == Val(source, "count")
       IN  /\ Val(target, "count") = RAdd(n_t, n_s)
           /\ Has(prev, "min") /\ Has(source, "min")
              => Val(target, "min") = RMin(Val(prev, "min"), Val(source, "min"))
           /\ Has(prev, "max") /\ Has(source, "max")
              => Val(target, "max") = RMax(Val(prev, "max"), Val(source, "max"))
           /\ Has(prev, "avg") /\ Has(source, "avg")
              => Val(target, "avg") = Weighted(Val(prev, "avg"), n_t, Val(source, "avg"), n_s)
           /\ \A p \in Percentiles :
                Has(prev, p) /\ Has(source, p)
                => Val(target, p) = Weighted(Val(prev, p), n_t, Val(source, p), n_s)
           /\ prev = TestTrendTarget /\ source = TestTrendSource
              => /\ Val(target, "count") = R(5) /\ Val(target, "avg") = R(160)
                 /\ Val(target, "min") = R(50) /\ Val(target, "max") = R(300)
                 /\ Val(target, "p(90)") = R(224)

C3_Witness ==
    /\ BothTrend /\ prev = TestTrendTarget /\ source = TestTrendSource
    /\ Val(target, "count") = R(5) /\ Val(target, "p(90)") = R(224)

\* C4: in a trend merge a percentile held only by the target keeps its value, and
\* a percentile held only by the source is not added to the target.
C4_OneSidedPercentiles ==
    BothTrend =>
        \A p \in Percentiles :
            /\ Has(prev, p) /\ ~Has(source, p) => Has(target, p) /\ Val(target, p) = Val(prev, p)
            /\ ~Has(prev, p) /\ Has(source, p) => ~Has(target, p)

C4_Witness ==
    /\ BothTrend
    /\ RLt(Zero, Val(prev, "count")) /\ RLt(Zero, Val(source, "count"))
    /\ Has(prev, "p(50)") /\ ~Has(source, "p(50)") /\ Val(target, "p(50)") = Val(prev, "p(50)")
    /\ ~Has(prev, "p(99)") /\ Has(source, "p(99)") /\ ~Has(target, "p(99)")
    /\ Has(prev, "p(90)") /\ Has(source, "p(90)") /\ Val(target, "p(90)") # Val(prev, "p(90)")

SameStats(a, b) ==
    \A k \in {"count", "min", "max", "avg"} : Has(a, k) /\ Has(b, k) /\ Val(a, k) = Val(b, k)

\* C5 as claimed: for all trends A, B, C of count, min, max and avg, merging
\* (A with B) with C gives the same count, min, max and avg as merging A with
\* (B with C), whatever the counts, zero included.
C5_Associative ==
    prog = "assoc" /\ nMerges = 1 => SameStats(assocL, assocR)

\* C5 as amended: count and avg agree for every combination of counts; min and
\* max agree unless two adjacent operands both have count zero while the third
\* has a positive count (n_A = n_B = 0 < n_C, or n_B = n_C = 0 < n_A).
C5_AssociativeAmended ==
    prog = "assoc" /\ nMerges = 1 =>
        LET n_A == Val(target, "count")
            n_B == Val(source, "count")
            n_C == Val(third, "count")
            skipsB == n_A = Zero /\ n_B = Zero /\ RLt(Zero, n_C)
            skipsC == n_B = Zero /\ n_C = Zero /\ RLt(Zero, n_A)
        IN  /\ Has(assocL, "count") /\ Has(assocR, "count")
            /\ Val(assocL, "count") = Val(assocR, "count")
            /\ Val(assocL, "avg") = Val(assocR, "avg")
            /\ ~skipsB /\ ~skipsC => SameStats(assocL, assocR)

C5_Witness ==
    /\ prog = "assoc" /\ nMerges = 1
    /\ Val(target, "count") = R(0) /\ Val(source, "count") = R(1) /\ Val(third, "count") = R(2)
    /\ Val(target, "min") = R(10) /\ Val(source, "min") = R(20) /\ Val(third, "min") = R(50)
    /\ SameStats(assocL, assocR)
    /\ Val(assocL, "count") = R(3) /\ Val(assocL, "min") = R(10)

\* C6: a rate merge sets passes and fails to the sums of both sides and value to
\* passes / (passes + fails) of the sums when that is positive; otherwise the
\* target's value is left as it was.
C6_RateMerge ==
    BothRate =>
        LET passes == RAdd(getFloat64(prev.Values, "passes", Zero),
                           getFloat64(source.Values, "passes", Zero))
            fails == RAdd(getFloat64(prev.Values, "fails", Zero),
                          getFloat64(source.Values, "fails", Zero))
        IN  /\ Val(target, "passes") = passes
            /\ Val(target, "fails") = fails
            /\ RLt(Zero, RAdd(passes, fails))
               => Val(target, "value") = RDiv(passes, RAdd(passes, fails))
            /\ RAdd(passes, fails) = Zero
               => /\ Has(target, "value") <=> Has(prev, "value")
                  /\ Has(prev, "value") => Val(target, "value") = Val(prev, "value")
            /\ prev = TestRateTarget /\ source = TestRateSource
               => /\ Val(target, "passes") = R(17) /\ Val(target, "fails") = R(3)
                  /\ Val(target, "value") = Norm(17, 20)

C6_Witness ==
    /\ BothRate /\ prev = TestRateTarget /\ source = TestRateSource
    /\ Val(target, "value") = Norm(17, 20)

\* C8: mergeMetric with a target and a source of different kinds leaves the
\* target's type and all its values as they were.
C8_KindMismatchNoOp ==
    nMerges > 0 /\ prog = "merge" /\ prev.Type # source.Type => target = prev

C8_Witness ==
    /\ nMerges > 0 /\ prog = "merge"
    /\ prev.Type = "trend" /\ source.Type = "counter"
    /\ RLt(Zero, Val(prev, "count")) /\ RLt(Zero, Val(source, "count"))
    /\ target = prev

(***************************************************************************)
(* Metric names and the aggregator's global-metric test                    *)
(***************************************************************************)
globalMetrics ==
    << <<"checks">>, <<"data", "received">>, <<"data", "sent">>,
       <<"http", "req", "duration">>, <<"http", "req", "failed">>, <<"http", "reqs">>,
       <<"iterations">>, <<"vus">>, <<"vus", "max">>,
       <<"http", "req", "blocked">>, <<"http", "req", "connecting">>,
       <<"http", "req", "sending">>, <<"http", "req", "waiting">>,
       <<"http", "req", "receiving">>, <<"http", "req", "tls", "handshaking">> >>

\* strings.HasPrefix(name, global + "_")
HasPrefixAndUnderscore(name, global) ==
    Len(name) > Len(global) /\ SubSeq(name, 1, Len(global)) = global

isGlobalMetricExactOnly(name) ==
    \E i \in 1..Len(globalMetrics) : name = globalMetrics[i]

isGlobalMetric(name) ==
    \E i \in 1..Len(globalMetrics) :
        name = globalMetrics[i] \/ HasPrefixAndUnderscore(name, globalMetrics[i])

normalizeEndpoint(endpoint) == endpoint

OtherKey == <<"other">>

\* the names drawn: three endpoint names (one of them spelled "other", one that
\* only resembles a global name) and two global names (canonical, prefixed)
UsersProfile == <<"users", "profile">>
HttpReqStatus200 == <<"http", "req", "status", "200">>
HttpReqs == <<"http", "reqs">>
HttpReqFailedUsers == <<"http", "req", "failed", "users">>
EndpointNames == {UsersProfile, HttpReqStatus200, OtherKey}
GlobalNames == {HttpReqs, HttpReqFailedUsers}

\* fmt.Sprintf("%x", md5.Sum([]byte(metricName)))[:8] of the names drawn
Md5Hex8OfName(metricName) ==
    CASE metricName = UsersProfile -> "4bf667cf"
      [] metricName = HttpReqStatus200 -> "4b044e31"
      [] metricName = OtherKey -> "795f3202"
      [] metricName = HttpReqs -> "4646052a"
      [] metricName = HttpReqFailedUsers -> "867315db"

\* the metric a snapshot file holds under a name: the i-th file's value
SampleMetric(name, i) ==
    CASE name = UsersProfile -> IF i % 2 = 1 THEN TestTrendTarget ELSE TestTrendSource
      [] name = HttpReqStatus200 -> Metric("counter", ("count" :> R(i)))
      [] name = OtherKey -> Metric("trend", ("count" :> R(1)) @@ ("avg" :> R(70))
                                            @@ ("min" :> R(70)) @@ ("max" :> R(70)))
      [] name = HttpReqs -> Metric("counter", ("count" :> R(2 * i)) @@ ("rate" :> R(1)))
      [] name = HttpReqFailedUsers -> Metric("rate", ("value" :> Norm(1, 2)))

\* the name sets of the snapshot files drawn
SnapshotNameSets ==
    {{UsersProfile, HttpReqStatus200, HttpReqs, HttpReqFailedUsers},
     {UsersProfile, HttpReqs},
     {HttpReqStatus200, OtherKey, HttpReqFailedUsers},
     {UsersProfile, HttpReqStatus200},
     {}}

MaxSnapshots == 2
MaxCeiling == 2

\* the lists of snapshots of length 0..MaxSnapshots; a snapshot's Metrics map
MetricsLists ==
    UNION {[1..n -> SnapshotNameSets] : n \in 0..MaxSnapshots}
SnapshotMetrics(names, i) == [name \in names |-> SampleMetric(name, i)]

(***************************************************************************)
(* AggregateMetrics                                                        *)
(***************************************************************************)
\* the StartTime and EndTime of the snapshot files drawn, in seconds
SnapshotTimes ==
    {[StartTime |-> 10, EndTime |-> 20], [StartTime |-> 5, EndTime |-> 30]}

\* the head of the loop body for the snapshot at Go index i: StartTime is
\* replaced if i == 0 or the snapshot starts before it, EndTime if the
\* snapshot ends after it
foldTimes(times, metrics, first) ==
    [StartTime |-> IF first \/ metrics.StartTime < times.StartTime
                   THEN metrics.StartTime ELSE times.StartTime,
     EndTime |-> IF metrics.EndTime > times.EndTime
                 THEN metrics.EndTime ELSE times.EndTime]

AtCeilingOffByOne(count, maxEndpoints) == count > maxEndpoints
\* endpointCount >= config.MaxEndpoints
AtCeiling(count, maxEndpoints) == count >= maxEndpoints

\* addGlobalMetrics' globalMetrics map after the first n snapshots: each global
\* name is cloned at its first occurrence and merged, weighted, at the later ones
RECURSIVE GlobalMetricsOf(_, _)
GlobalMetricsOf(list, n) ==
    IF n = 0 THEN <<>>
    ELSE LET before == GlobalMetricsOf(list, n - 1)
             here == {name \in DOMAIN list[n] : isGlobalMetric(name)}
         IN  [name \in DOMAIN before \cup here |->
                IF name \notin here THEN before[name]
                ELSE IF name \in DOMAIN before
                     THEN mergeMetric(before[name], list[n][name], "weighted")
                     ELSE cloneMetric(list[n][name])]

addGlobalMetrics(res, list) ==
    LET gm == GlobalMetricsOf(list, Len(list))
    IN  [name \in DOMAIN res \cup DOMAIN gm |->
            IF name \in DOMAIN gm THEN gm[name] ELSE res[name]]

\* MaxEndpoints is a number of keys: the ceilings drawn are 0..MaxCeiling
InitAggregate ==
    /\ prog = "aggregate"
    /\ config \in [MaxEndpoints : 0..MaxCeiling, NoBucket : BOOLEAN,
                   MergePercentiles : {"weighted"}]
    /\ \E names \in MetricsLists :
        /\ metricsList = [i \in DOMAIN names |-> SnapshotMetrics(names[i], i)]
        /\ sourceTimes \in [DOMAIN names -> SnapshotTimes]
    /\ now \in {25, 100}
    /\ resultTimes = <<>>
    /\ idx = 0 /\ pending = {} /\ result = <<>> /\ endpointMap = <<>>
    /\ endpointCount = 0 /\ endpointsBucketed = 0 /\ aggPc = "start"
    /\ IdleKernel /\ IdleAssoc /\ IdleDPN /\ IdleCollector /\ IdleNormalize /\ IdleThresholds
    /\ IdleFiles

\* len(metricsList) == 0: "no metrics to aggregate"
AggregateNothing ==
    /\ prog = "aggregate" /\ aggPc = "start"
    /\ Len(metricsList) = 0
    /\ aggPc' = "error"
    /\ UNCHANGED resultTimes
    /\ UNCHANGED <<prog, filesVars, normVars, thVars, kernelVars, assocVars, dpnVars, mcVars, now, sourceTimes, config, metricsList, idx,
                   pending, result, endpointMap, endpointCount, endpointsBucketed>>

\* the fresh result, its StartTime and EndTime being time.Now(), and the head
\* of the loop over metricsList
AggregateBegin ==
    /\ prog = "aggregate" /\ aggPc = "start"
    /\ Len(metricsList) > 0
    /\ result' = <<>> /\ endpointMap' = <<>>
    /\ endpointCount' = 0 /\ endpointsBucketed' = 0
    /\ idx' = 1 /\ pending' = DOMAIN metricsList[1]
    /\ resultTimes' = foldTimes([StartTime |-> now, EndTime |-> now], sourceTimes[1], TRUE)
    /\ aggPc' = "loop"
    /\ UNCHANGED <<prog, filesVars, normVars, thVars, kernelVars, assocVars, dpnVars, mcVars, now, sourceTimes, config, metricsList>>

\* one iteration of "for metricName, metric := range metrics.Metrics": Go ranges
\* over a map in an order of its own choosing
RangeMetric ==
    /\ prog = "aggregate" /\ aggPc = "loop"
    /\ \E metricName \in pending :
        LET metric == metricsList[idx][metricName]
            full == AtCeiling(endpointCount, config.MaxEndpoints)
            plain == normalizeEndpoint(metricName)
            collides == plain \in DOMAIN endpointMap /\ endpointMap[plain] # metricName
            normalizedName ==
                IF full THEN OtherKey
                ELSE IF collides THEN Append(plain, Md5Hex8OfName(metricName))
                ELSE plain
        IN  /\ pending' = pending \ {metricName}
            /\ UNCHANGED resultTimes
            /\ IF isGlobalMetric(metricName) \/ (full /\ config.NoBucket)
               THEN UNCHANGED <<result, endpointMap, endpointCount, endpointsBucketed>>
               ELSE /\ endpointsBucketed' = IF full THEN endpointsBucketed + 1
                                            ELSE endpointsBucketed
                    /\ endpointMap' = IF full THEN endpointMap
                                      ELSE Put(endpointMap, normalizedName, metricName)
                    /\ endpointCount' = IF full THEN endpointCount ELSE endpointCount + 1
                    /\ result' = Put(result, normalizedName,
                                     IF normalizedName \in DOMAIN result
                                     THEN mergeMetric(result[normalizedName], metric,
                                                      config.MergePercentiles)
                                     ELSE cloneMetric(metric))
    /\ UNCHANGED <<prog, filesVars, normVars, thVars, kernelVars, assocVars, dpnVars, mcVars, now, sourceTimes, config, metricsList, idx, aggPc>>

\* the next element of metricsList
NextSnapshot ==
    /\ prog = "aggregate" /\ aggPc = "loop"
    /\ pending = {} /\ idx < Len(metricsList)
    /\ idx' = idx + 1 /\ pending' = DOMAIN metricsList[idx + 1]
    /\ resultTimes' = foldTimes(resultTimes, sourceTimes[idx + 1], FALSE)
    /\ UNCHANGED <<prog, filesVars, normVars, thVars, kernelVars, assocVars, dpnVars, mcVars, now, sourceTimes, config, metricsList, result,
                   endpointMap, endpointCount, endpointsBucketed, aggPc>>

\* addGlobalMetrics(result, metricsList); return result, nil
AggregateEnd ==
    /\ prog = "aggregate" /\ aggPc = "loop"
    /\ pending = {} /\ idx = Len(metricsList)
    /\ result' = addGlobalMetrics(result, metricsList)
    /\ aggPc' = "done"
    /\ UNCHANGED resultTimes
    /\ UNCHANGED <<prog, filesVars, normVars, thVars, kernelVars, assocVars, dpnVars, mcVars, now, sourceTimes, config, metricsList, idx,
                   pending, endpointMap, endpointCount, endpointsBucketed>>

(***************************************************************************)
(* DPNState and handleCollisionsAndCardinalityWithState                    *)
(***************************************************************************)
\* paths as ExtractSimpleEndpointWithState hands them on (lower-cased, stripped)
\* with the template it shapes for each (TestExtractSimpleEndpoint)
PathUser123 == "/users/user123/profile"
PathUserUUID == "/users/550e8400-e29b-41d4-a716-446655440000/profile"
PathHealth == "/health"
PathOrderItems == "/orders/order_456/items/item789"
NormalizedPaths ==
    {<<UsersProfile, PathUser123>>, <<UsersProfile, PathUserUUID>>,
     <<(<<"health">>), PathHealth>>, <<(<<"orders", "items">>), PathOrderItems>>}

\* fmt.Sprintf("%x", md5.Sum([]byte(original)))[:8] of the paths drawn
Md5Hex8OfPath(original) ==
    CASE original = PathUser123 -> "1e747094"
      [] original = PathUserUUID -> "26b73c01"
      [] original = PathHealth -> "febd9bd9"
      [] original = PathOrderItems -> "37859925"
      [] original = "" -> "d41d8cd9"
      [] original = "//" -> "7bc0ee63"
      [] original = "/api/v1" -> "8388dd2c"
      [] original = "/api/v1/get/user123/{{.id}}" -> "84f4cd20"
      [] original = "/api/v1/users" -> "9710c920"
      [] original = "/files/archive.tar.gz" -> "acd98991"
      [] original = "/shop/cart/items/checkout" -> "13228a2f"
      [] original = "api_v1" -> "75a053c6"
      [] original = "api_v1_8388dd2c" -> "28ac41a7"
      [] original = "api_v1_get_user123_{{.id}}" -> "318b7fa8"
      [] original = "api_v1_get_user123_{{.id}}_84f4cd20" -> "8640ba3a"
      [] original = "files_archive.tar" -> "4e5989d6"
      [] original = "files_archive.tar_acd98991" -> "62bfac24"
      [] original = "health" -> "555bf834"
      [] original = "health_febd9bd9" -> "fea7150d"
      [] original = "orders_items" -> "0c633529"
      [] original = "orders_items_37859925" -> "fedb0a1c"
      [] original = "other" -> "795f3202"
      [] original = "root" -> "63a9f0ea"
      [] original = "shop_cart_checkout" -> "25a92ff0"
      [] original = "shop_cart_checkout_13228a2f" -> "837a4449"
      [] original = "users" -> "9bc65c2a"
      [] original = "users_9710c920" -> "e20ed6d7"
      [] original = "users_profile" -> "4bf667cf"
      [] original = "users_profile_1e747094" -> "f5a7c53a"
      [] original = "users_profile_26b73c01" -> "cbef5c45"

NewDPNState(cfg) ==
    [cache |-> <<>>, endpointCollisions |-> <<>>, endpointCount |-> 0,
     endpointsBucketed |-> 0, config |-> cfg]

\* the key returned and the state left behind
handleCollisionsNoCeiling(normalized, original, state) ==
    LET hashed == Append(normalized, Md5Hex8OfPath(original))
        key == IF normalized \in DOMAIN state.endpointCollisions
                  /\ state.endpointCollisions[normalized] # original
               THEN hashed ELSE normalized
    IN  [key |-> key,
         state |-> [state EXCEPT !.endpointCollisions = Put(@, key, original),
                                 !.endpointCount = @ + 1]]

handleCollisionsOverwriteOrigin(normalized, original, state) ==
    IF state.endpointCount >= state.config.MaxEndpoints
    THEN [key |-> OtherKey,
          state |-> [state EXCEPT !.endpointsBucketed = @ + 1]]
    ELSE IF normalized \in DOMAIN state.endpointCollisions
            /\ state.endpointCollisions[normalized] # original
    THEN [key |-> Append(normalized, Md5Hex8OfPath(original)),
          state |-> [state EXCEPT
                        !.endpointCollisions = Put(@, normalized, original),
                        !.endpointCount = @ + 1]]
    ELSE [key |-> normalized,
          state |-> [state EXCEPT !.endpointCollisions = Put(@, normalized, original),
                                  !.endpointCount = @ + 1]]

handleCollisionsAndCardinalityWithState(normalized, original, state) ==
    IF state.endpointCount >= state.config.MaxEndpoints
    THEN [key |-> OtherKey,
          state |-> [state EXCEPT !.endpointsBucketed = @ + 1]]
    ELSE IF normalized \in DOMAIN state.endpointCollisions
            /\ state.endpointCollisions[normalized] # original
    THEN LET normalizedWithHash == Append(normalized, Md5Hex8OfPath(original))
         IN  [key |-> normalizedWithHash,
              state |-> [state EXCEPT
                            !.endpointCollisions = Put(@, normalizedWithHash, original),
                            !.endpointCount = @ + 1]]
    ELSE [key |-> normalized,
          state |-> [state EXCEPT !.endpointCollisions = Put(@, normalized, original),
                                  !.endpointCount = @ + 1]]

MaxDpnCalls == 4

InitDPN ==
    /\ prog = "dpn"
    /\ \E m \in 0..MaxCeiling : dpn = NewDPNState([MaxEndpoints |-> m])
    /\ dpnKeys = {} /\ dpnLast = <<>> /\ dpnCalls = 0
    /\ IdleKernel /\ IdleAssoc /\ IdleAggregate /\ IdleCollector /\ IdleNormalize /\ IdleThresholds
    /\ IdleFiles

\* one call on the shared state, for a path and its template
HandleCollisions ==
    /\ prog = "dpn"
    /\ dpnCalls < MaxDpnCalls
    /\ \E in \in NormalizedPaths :
        LET out == handleCollisionsAndCardinalityWithState(in[1], in[2], dpn)
        IN  /\ dpn' = out.state
            /\ dpnLast' = out.key
            /\ dpnKeys' = dpnKeys \cup {out.key}
    /\ dpnCalls' = dpnCalls + 1
    /\ UNCHANGED <<prog, filesVars, normVars, thVars, kernelVars, assocVars, aggVars, mcVars>>

(***************************************************************************)
(* The aggregator run and the normalizer's controller                      *)
(***************************************************************************)
Init == InitAggregate \/ InitDPN

Next ==
    \/ AggregateNothing
    \/ AggregateBegin
    \/ RangeMetric
    \/ NextSnapshot
    \/ AggregateEnd
    \/ HandleCollisions

Spec == Init /\ [][Next]_vars

(***************************************************************************)
(* Claims on the cardinality ceiling and the global metrics                *)
(***************************************************************************)
\* the endpoint keys of the aggregate: every key but the global names drawn
AdmittedKeys == (DOMAIN result \ GlobalNames) \ {OtherKey}

\* C1: at every point of an aggregation, and after every call on a shared
\* DPNState, the distinct endpoint keys admitted, "other" apart, are at most
\* MaxEndpoints.
C1_CeilingHolds ==
    /\ prog = "aggregate" => Cardinality(AdmittedKeys) <= config.MaxEndpoints
    /\ prog = "dpn" =>
        /\ Cardinality(dpnKeys \ {OtherKey}) <= dpn.config.MaxEndpoints
        /\ Cardinality(DOMAIN dpn.endpointCollisions) <= dpn.config.MaxEndpoints

C1_Witness ==
    /\ prog = "aggregate" /\ aggPc = "done"
    /\ config.MaxEndpoints = 2 /\ Cardinality(AdmittedKeys) = 2
    /\ endpointsBucketed > 0 /\ OtherKey \in DOMAIN result

\* the endpoint metrics ranged over so far
RangedEndpoints ==
    LET Seen(i) == IF i < idx THEN DOMAIN metricsList[i]
                   ELSE IF i = idx THEN DOMAIN metricsList[i] \ pending
                   ELSE {}
    IN  {p \in (DOMAIN metricsList) \X EndpointNames : p[2] \in Seen(p[1])}

\* C9: whatever MaxEndpoints and NoBucket are, every global name (canonical, or
\* a canonical name, "_" and a suffix) held by some source is in the aggregate
\* under its own name with its own kind, and only endpoint metrics are counted
\* or bucketed: endpoint_count + endpoints_bucketed never exceeds the number of
\* endpoint metrics ranged over.
C9_GlobalsBypassCeiling ==
    prog = "aggregate" =>
        /\ endpointCount + endpointsBucketed <= Cardinality(RangedEndpoints)
        /\ aggPc = "done" =>
            \A i \in DOMAIN metricsList :
                \A name \in DOMAIN metricsList[i] \cap GlobalNames :
                    /\ name \in DOMAIN result
                    /\ result[name].Type = metricsList[i][name].Type

C9_Witness ==
    /\ prog = "aggregate" /\ aggPc = "done"
    /\ config.MaxEndpoints = 0
    /\ Len(metricsList) = 2
    /\ HttpReqs \in DOMAIN result /\ HttpReqFailedUsers \in DOMAIN result
    /\ result[HttpReqs].Values["count"] = R(6)
    /\ endpointCount = 0

\* C10: an endpoint metric that arrives while endpoint_count >= MaxEndpoints and
\* NoBucket is false is merged into the key "other" (cloned when "other" is not
\* there yet), endpoints_bucketed grows by one and endpoint_count stays; the
\* same holds of a path that reaches a shared DPNState at its ceiling, which is
\* given the key "other".
C10_OverflowToOther ==
    [][/\ \A name \in EndpointNames :
            /\ prog = "aggregate" /\ aggPc = "loop"
            /\ name \in pending /\ pending' = pending \ {name}
            /\ endpointCount >= config.MaxEndpoints /\ ~config.NoBucket
            => /\ endpointsBucketed' = endpointsBucketed + 1
               /\ endpointCount' = endpointCount
               /\ endpointMap' = endpointMap
               /\ OtherKey \in DOMAIN result'
               /\ \A k \in DOMAIN result : k \in DOMAIN result' /\ (k # OtherKey => result'[k] = result[k])
               /\ DOMAIN result' = DOMAIN result \cup {OtherKey}
               /\ result'[OtherKey] =
                    IF OtherKey \in DOMAIN result
                    THEN mergeMetric(result[OtherKey], metricsList[idx][name], "weighted")
                    ELSE metricsList[idx][name]
       /\ /\ prog = "dpn" /\ dpnCalls' = dpnCalls + 1
          /\ dpn.endpointCount >= dpn.config.MaxEndpoints
          => /\ dpnLast' = OtherKey
             /\ dpn'.endpointsBucketed = dpn.endpointsBucketed + 1
             /\ dpn'.endpointCount = dpn.endpointCount
             /\ dpn'.endpointCollisions = dpn.endpointCollisions
      ]_vars

C10_Witness ==
    /\ prog = "aggregate" /\ aggPc = "loop"
    /\ ~config.NoBucket /\ config.MaxEndpoints = 1
    /\ endpointCount = 1 /\ endpointsBucketed = 2
    /\ OtherKey \in DOMAIN result
    /\ result[OtherKey].Type = "counter" /\ result[OtherKey].Values["count"] = R(3)

\* C11: with NoBucket true, an endpoint metric that arrives while
\* endpoint_count >= MaxEndpoints changes nothing in the aggregate: no key is
\* added ("other" included), no metric held is modified, and neither counter
\* nor the endpoint map moves.
C11_NoBucketDrops ==
    [][\A name \in EndpointNames :
            /\ prog = "aggregate" /\ aggPc = "loop"
            /\ name \in pending /\ pending' = pending \ {name}
            /\ endpointCount >= config.MaxEndpoints /\ config.NoBucket
            => /\ result' = result
               /\ endpointMap' = endpointMap
               /\ endpointCount' = endpointCount
               /\ endpointsBucketed' = endpointsBucketed
      ]_vars

C11_Witness ==
    /\ prog = "aggregate" /\ aggPc = "done"
    /\ config.NoBucket /\ config.MaxEndpoints = 1
    /\ Len(metricsList) = 1
    /\ {UsersProfile, HttpReqStatus200} \subseteq DOMAIN metricsList[1]
    /\ endpointCount = 1 /\ endpointsBucketed = 0
    /\ OtherKey \notin DOMAIN result
    /\ Cardinality(AdmittedKeys) = 1

(***************************************************************************)
(* The path normalizer, ExtractSimpleEndpointWithState.  Paths, tokens and  *)
(* cache keys are Go strings; endpoint keys are sequences of words, as      *)
(* above.  What Go computes character by character (ToLower, the cuts at    *)
(* "?", "#" and ";", TrimSuffix, Split, the regular expressions, md5) is    *)
(* tabulated for the strings drawn, each table entry being the value the    *)
(* Go expression has on that string.  No drawn path gives a template over   *)
(* 80 characters, so result[:80] never applies.                             *)
(***************************************************************************)
\* the paths drawn
RawPaths ==
    {PathUser123, PathUserUUID, PathHealth, PathOrderItems,
     "", "/", "///", "/api/v1", "/api/v1/get/user123/{{.id}}",
     "/API/V1/Users", "/files/archive.tar.gz", "/users/user123/profile?page=2", "/shop/cart/items/checkout"}

\* for a path: strings.ToLower(path); that string cut at "?", "#" and ";";
\* strings.TrimSuffix(.., "/"); strings.Split(.., "/") with each part trimmed of
\* space; and strings.Trim(strings.ReplaceAll(.., "/", "_"), "_") as words
PathTable ==
    (  "/users/user123/profile" :>
        [ToLower |-> "/users/user123/profile", Strip |-> "/users/user123/profile", TrimSuffix |-> "/users/user123/profile",
         Split |-> <<"", "users", "user123", "profile">>,
         ReplaceAll |-> <<"users", "user123", "profile">>]
    @@ "/users/550e8400-e29b-41d4-a716-446655440000/profile" :>
        [ToLower |-> "/users/550e8400-e29b-41d4-a716-446655440000/profile", Strip |-> "/users/550e8400-e29b-41d4-a716-446655440000/profile", TrimSuffix |-> "/users/550e8400-e29b-41d4-a716-446655440000/profile",
         Split |-> <<"", "users", "550e8400-e29b-41d4-a716-446655440000", "profile">>,
         ReplaceAll |-> <<"users", "550e8400-e29b-41d4-a716-446655440000", "profile">>]
    @@ "/health" :>
        [ToLower |-> "/health", Strip |-> "/health", TrimSuffix |-> "/health",
         Split |-> <<"", "health">>,
         ReplaceAll |-> <<"health">>]
    @@ "/orders/order_456/items/item789" :>
        [ToLower |-> "/orders/order_456/items/item789", Strip |-> "/orders/order_456/items/item789", TrimSuffix |-> "/orders/order_456/items/item789",
         Split |-> <<"", "orders", "order_456", "items", "item789">>,
         ReplaceAll |-> <<"orders", "order", "456", "items", "item789">>]
    @@ "" :>
        [ToLower |-> "", Strip |-> "", TrimSuffix |-> "",
         Split |-> <<"">>,
         ReplaceAll |-> <<>>]
    @@ "/" :>
        [ToLower |-> "/", Strip |-> "/", TrimSuffix |-> "",
         Split |-> <<"">>,
         ReplaceAll |-> <<>>]
    @@ "///" :>
        [ToLower |-> "///", Strip |-> "///", TrimSuffix |-> "//",
         Split |-> <<"", "", "">>,
         ReplaceAll |-> <<>>]
    @@ "/api/v1" :>
        [ToLower |-> "/api/v1", Strip |-> "/api/v1", TrimSuffix |-> "/api/v1",
         Split |-> <<"", "api", "v1">>,
         ReplaceAll |-> <<"api", "v1">>]
    @@ "/api/v1/get/user123/{{.id}}" :>
        [ToLower |-> "/api/v1/get/user123/{{.id}}", Strip |-> "/api/v1/get/user123/{{.id}}", TrimSuffix |-> "/api/v1/get/user123/{{.id}}",
         Split |-> <<"", "api", "v1", "get", "user123", "{{.id}}">>,
         ReplaceAll |-> <<"api", "v1", "get", "user123", "{{.id}}">>]
    @@ "/API/V1/Users" :>
        [ToLower |-> "/api/v1/users", Strip |-> "/api/v1/users", TrimSuffix |-> "/api/v1/users",
         Split |-> <<"", "api", "v1", "users">>,
         ReplaceAll |-> <<"api", "v1", "users">>]
    @@ "/files/archive.tar.gz" :>
        [ToLower |-> "/files/archive.tar.gz", Strip |-> "/files/archive.tar.gz", TrimSuffix |-> "/files/archive.tar.gz",
         Split |-> <<"", "files", "archive.tar.gz">>,
         ReplaceAll |-> <<"files", "archive.tar.gz">>]
    @@ "/users/user123/profile?page=2" :>
        [ToLower |-> "/users/user123/profile?page=2", Strip |-> "/users/user123/profile", TrimSuffix |-> "/users/user123/profile",
         Split |-> <<"", "users", "user123", "profile">>,
         ReplaceAll |-> <<"users", "user123", "profile">>]
    @@ "/shop/cart/items/checkout" :>
        [ToLower |-> "/shop/cart/items/checkout", Strip |-> "/shop/cart/items/checkout", TrimSuffix |-> "/shop/cart/items/checkout",
         Split |-> <<"", "shop", "cart", "items", "checkout">>,
         ReplaceAll |-> <<"shop", "cart", "items", "checkout">>]
    @@ "api_v1" :>
        [ToLower |-> "api_v1", Strip |-> "api_v1", TrimSuffix |-> "api_v1",
         Split |-> <<"api_v1">>,
         ReplaceAll |-> <<"api", "v1">>]
    @@ "api_v1_8388dd2c" :>
        [ToLower |-> "api_v1_8388dd2c", Strip |-> "api_v1_8388dd2c", TrimSuffix |-> "api_v1_8388dd2c",
         Split |-> <<"api_v1_8388dd2c">>,
         ReplaceAll |-> <<"api", "v1", "8388dd2c">>]
    @@ "api_v1_get_user123_{{.id}}" :>
        [ToLower |-> "api_v1_get_user123_{{.id}}", Strip |-> "api_v1_get_user123_{{.id}}", TrimSuffix |-> "api_v1_get_user123_{{.id}}",
         Split |-> <<"api_v1_get_user123_{{.id}}">>,
         ReplaceAll |-> <<"api", "v1", "get", "user123", "{{.id}}">>]
    @@ "api_v1_get_user123_{{.id}}_84f4cd20" :>
        [ToLower |-> "api_v1_get_user123_{{.id}}_84f4cd20", Strip |-> "api_v1_get_user123_{{.id}}_84f4cd20", TrimSuffix |-> "api_v1_get_user123_{{.id}}_84f4cd20",
         Split |-> <<"api_v1_get_user123_{{.id}}_84f4cd20">>,
         ReplaceAll |-> <<"api", "v1", "get", "user123", "{{.id}}", "84f4cd20">>]
    @@ "files_archive.tar" :>
        [ToLower |-> "files_archive.tar", Strip |-> "files_archive.tar", TrimSuffix |-> "files_archive.tar",
         Split |-> <<"files_archive.tar">>,
         ReplaceAll |-> <<"files", "archive.tar">>]
    @@ "files_archive.tar_acd98991" :>
        [ToLower |-> "files_archive.tar_acd98991", Strip |-> "files_archive.tar_acd98991", TrimSuffix |-> "files_archive.tar_acd98991",
         Split |-> <<"files_archive.tar_acd98991">>,
         ReplaceAll |-> <<"files", "archive.tar", "acd98991">>]
    @@ "health" :>
        [ToLower |-> "health", Strip |-> "health", TrimSuffix |-> "health",
         Split |-> <<"health">>,
         ReplaceAll |-> <<"health">>]
    @@ "health_febd9bd9" :>
        [ToLower |-> "health_febd9bd9", Strip |-> "health_febd9bd9", TrimSuffix |-> "health_febd9bd9",
         Split |-> <<"health_febd9bd9">>,
         ReplaceAll |-> <<"health", "febd9bd9">>]
    @@ "orders_items" :>
        [ToLower |-> "orders_items", Strip |-> "orders_items", TrimSuffix |-> "orders_items",
         Split |-> <<"orders_items">>,
         ReplaceAll |-> <<"orders", "items">>]
    @@ "orders_items_37859925" :>
        [ToLower |-> "orders_items_37859925", Strip |-> "orders_items_37859925", TrimSuffix |-> "orders_items_37859925",
         Split |-> <<"orders_items_37859925">>,
         ReplaceAll |-> <<"orders", "items", "37859925">>]
    @@ "other" :>
        [ToLower |-> "other", Strip |-> "other", TrimSuffix |-> "other",
         Split |-> <<"other">>,
         ReplaceAll |-> <<"other">>]
    @@ "root" :>
        [ToLower |-> "root", Strip |-> "root", TrimSuffix |-> "root",
         Split |-> <<"root">>,
         ReplaceAll |-> <<"root">>]
    @@ "shop_cart_checkout" :>
        [ToLower |-> "shop_cart_checkout", Strip |-> "shop_cart_checkout", TrimSuffix |-> "shop_cart_checkout",
         Split |-> <<"shop_cart_checkout">>,
         ReplaceAll |-> <<"shop", "cart", "checkout">>]
    @@ "shop_cart_checkout_13228a2f" :>
        [ToLower |-> "shop_cart_checkout_13228a2f", Strip |-> "shop_cart_checkout_13228a2f", TrimSuffix |-> "shop_cart_checkout_13228a2f",
         Split |-> <<"shop_cart_checkout_13228a2f">>,
         ReplaceAll |-> <<"shop", "cart", "checkout", "13228a2f">>]
    @@ "users" :>
        [ToLower |-> "users", Strip |-> "users", TrimSuffix |-> "users",
         Split |-> <<"users">>,
         ReplaceAll |-> <<"users">>]
    @@ "users_9710c920" :>
        [ToLower |-> "users_9710c920", Strip |-> "users_9710c920", TrimSuffix |-> "users_9710c920",
         Split |-> <<"users_9710c920">>,
         ReplaceAll |-> <<"users", "9710c920">>]
    @@ "users_profile" :>
        [ToLower |-> "users_profile", Strip |-> "users_profile", TrimSuffix |-> "users_profile",
         Split |-> <<"users_profile">>,
         ReplaceAll |-> <<"users", "profile">>]
    @@ "users_profile_1e747094" :>
        [ToLower |-> "users_profile_1e747094", Strip |-> "users_profile_1e747094", TrimSuffix |-> "users_profile_1e747094",
         Split |-> <<"users_profile_1e747094">>,
         ReplaceAll |-> <<"users", "profile", "1e747094">>]
    @@ "users_profile_26b73c01" :>
        [ToLower |-> "users_profile_26b73c01", Strip |-> "users_profile_26b73c01", TrimSuffix |-> "users_profile_26b73c01",
         Split |-> <<"users_profile_26b73c01">>,
         ReplaceAll |-> <<"users", "profile", "26b73c01">>] )

\* for a token: whether reTemplateVar, a keepList pattern, reVersion or
\* reDateVersion match it, isIDLike(token), len(token) >= 6 && looksLikeID(token),
\* and the words between its underscores
TokenTable ==
    (  "users" :>
        [reTemplateVar |-> FALSE, keepList |-> FALSE, reVersion |-> FALSE, isIDLike |-> FALSE,
         looksLikeID |-> FALSE, Words |-> <<"users">>]
    @@ "user123" :>
        [reTemplateVar |-> FALSE, keepList |-> FALSE, reVersion |-> FALSE, isIDLike |-> TRUE,
         looksLikeID |-> TRUE, Words |-> <<"user123">>]
    @@ "profile" :>
        [reTemplateVar |-> FALSE, keepList |-> FALSE, reVersion |-> FALSE, isIDLike |-> FALSE,
         looksLikeID |-> FALSE, Words |-> <<"profile">>]
    @@ "550e8400-e29b-41d4-a716-446655440000" :>
        [reTemplateVar |-> FALSE, keepList |-> FALSE, reVersion |-> FALSE, isIDLike |-> TRUE,
         looksLikeID |-> TRUE, Words |-> <<"550e8400-e29b-41d4-a716-446655440000">>]
    @@ "health" :>
        [reTemplateVar |-> FALSE, keepList |-> FALSE, reVersion |-> FALSE, isIDLike |-> FALSE,
         looksLikeID |-> FALSE, Words |-> <<"health">>]
    @@ "orders" :>
        [reTemplateVar |-> FALSE, keepList |-> FALSE, reVersion |-> FALSE, isIDLike |-> FALSE,
         looksLikeID |-> FALSE, Words |-> <<"orders">>]
    @@ "order_456" :>
        [reTemplateVar |-> FALSE, keepList |-> FALSE, reVersion |-> FALSE, isIDLike |-> TRUE,
         looksLikeID |-> FALSE, Words |-> <<"order", "456">>]
    @@ "items" :>
        [reTemplateVar |-> FALSE, keepList |-> FALSE, reVersion |-> FALSE, isIDLike |-> FALSE,
         looksLikeID |-> FALSE, Words |-> <<"items">>]
    @@ "item789" :>
        [reTemplateVar |-> FALSE, keepList |-> FALSE, reVersion |-> FALSE, isIDLike |-> TRUE,
         looksLikeID |-> TRUE, Words |-> <<"item789">>]
    @@ "api" :>
        [reTemplateVar |-> FALSE, keepList |-> FALSE, reVersion |-> FALSE, isIDLike |-> FALSE,
         looksLikeID |-> FALSE, Words |-> <<"api">>]
    @@ "v1" :>
        [reTemplateVar |-> FALSE, keepList |-> FALSE, reVersion |-> TRUE, isIDLike |-> TRUE,
         looksLikeID |-> FALSE, Words |-> <<"v1">>]
    @@ "get" :>
        [reTemplateVar |-> FALSE, keepList |-> FALSE, reVersion |-> FALSE, isIDLike |-> FALSE,
         looksLikeID |-> FALSE, Words |-> <<"get">>]
    @@ "{{.id}}" :>
        [reTemplateVar |-> TRUE, keepList |-> FALSE, reVersion |-> FALSE, isIDLike |-> FALSE,
         looksLikeID |-> FALSE, Words |-> <<"{{.id}}">>]
    @@ "files" :>
        [reTemplateVar |-> FALSE, keepList |-> FALSE, reVersion |-> FALSE, isIDLike |-> FALSE,
         looksLikeID |-> FALSE, Words |-> <<"files">>]
    @@ "archive.tar.gz" :>
        [reTemplateVar |-> FALSE, keepList |-> FALSE, reVersion |-> FALSE, isIDLike |-> FALSE,
         looksLikeID |-> FALSE, Words |-> <<"archive.tar.gz">>]
    @@ "shop" :>
        [reTemplateVar |-> FALSE, keepList |-> FALSE, reVersion |-> FALSE, isIDLike |-> FALSE,
         looksLikeID |-> FALSE, Words |-> <<"shop">>]
    @@ "cart" :>
        [reTemplateVar |-> FALSE, keepList |-> FALSE, reVersion |-> FALSE, isIDLike |-> FALSE,
         looksLikeID |-> FALSE, Words |-> <<"cart">>]
    @@ "checkout" :>
        [reTemplateVar |-> FALSE, keepList |-> FALSE, reVersion |-> FALSE, isIDLike |-> FALSE,
         looksLikeID |-> FALSE, Words |-> <<"checkout">>]
    @@ "api_v1" :>
        [reTemplateVar |-> FALSE, keepList |-> FALSE, reVersion |-> FALSE, isIDLike |-> FALSE,
         looksLikeID |-> FALSE, Words |-> <<"api", "v1">>]
    @@ "api_v1_8388dd2c" :>
        [reTemplateVar |-> FALSE, keepList |-> FALSE, reVersion |-> FALSE, isIDLike |-> FALSE,
         looksLikeID |-> TRUE, Words |-> <<"api", "v1", "8388dd2c">>]
    @@ "api_v1_get_user123_{{.id}}" :>
        [reTemplateVar |-> FALSE, keepList |-> FALSE, reVersion |-> FALSE, isIDLike |-> FALSE,
         looksLikeID |-> TRUE, Words |-> <<"api", "v1", "get", "user123", "{{.id}}">>]
    @@ "api_v1_get_user123_{{.id}}_84f4cd20" :>
        [reTemplateVar |-> FALSE, keepList |-> FALSE, reVersion |-> FALSE, isIDLike |-> FALSE,
         looksLikeID |-> TRUE, Words |-> <<"api", "v1", "get", "user123", "{{.id}}", "84f4cd20">>]
    @@ "files_archive.tar" :>
        [reTemplateVar |-> FALSE, keepList |-> FALSE, reVersion |-> FALSE, isIDLike |-> FALSE,
         looksLikeID |-> FALSE, Words |-> <<"files", "archive.tar">>]
    @@ "files_archive.tar_acd98991" :>
        [reTemplateVar |-> FALSE, keepList |-> FALSE, reVersion |-> FALSE, isIDLike |-> FALSE,
         looksLikeID |-> FALSE, Words |-> <<"files", "archive.tar", "acd98991">>]
    @@ "health_febd9bd9" :>
        [reTemplateVar |-> FALSE, keepList |-> FALSE, reVersion |-> FALSE, isIDLike |-> FALSE,
         looksLikeID |-> TRUE, Words |-> <<"health", "febd9bd9">>]
    @@ "orders_items" :>
        [reTemplateVar |-> FALSE, keepList |-> FALSE, reVersion |-> FALSE, isIDLike |-> FALSE,
         looksLikeID |-> FALSE, Words |-> <<"orders", "items">>]
    @@ "orders_items_37859925" :>
        [reTemplateVar |-> FALSE, keepList |-> FALSE, reVersion |-> FALSE, isIDLike |-> FALSE,
         looksLikeID |-> FALSE, Words |-> <<"orders", "items", "37859925">>]
    @@ "other" :>
        [reTemplateVar |-> FALSE, keepList |-> FALSE, reVersion |-> FALSE, isIDLike |-> FALSE,
         looksLikeID |-> FALSE, Words |-> <<"other">>]
    @@ "root" :>
        [reTemplateVar |-> FALSE, keepList |-> FALSE, reVersion |-> FALSE, isIDLike |-> FALSE,
         looksLikeID |-> FALSE, Words |-> <<"root">>]
    @@ "shop_cart_checkout" :>
        [reTemplateVar |-> FALSE, keepList |-> FALSE, reVersion |-> FALSE, isIDLike |-> FALSE,
         looksLikeID |-> FALSE, Words |-> <<"shop", "cart", "checkout">>]
    @@ "shop_cart_checkout_13228a2f" :>
        [reTemplateVar |-> FALSE, keepList |-> FALSE, reVersion |-> FALSE, isIDLike |-> FALSE,
         looksLikeID |-> TRUE, Words |-> <<"shop", "cart", "checkout", "13228a2f">>]
    @@ "users_9710c920" :>
        [reTemplateVar |-> FALSE, keepList |-> FALSE, reVersion |-> FALSE, isIDLike |-> TRUE,
         looksLikeID |-> TRUE, Words |-> <<"users", "9710c920">>]
    @@ "users_profile" :>
        [reTemplateVar |-> FALSE, keepList |-> FALSE, reVersion |-> FALSE, isIDLike |-> FALSE,
         looksLikeID |-> FALSE, Words |-> <<"users", "profile">>]
    @@ "users_profile_1e747094" :>
        [reTemplateVar |-> FALSE, keepList |-> FALSE, reVersion |-> FALSE, isIDLike |-> FALSE,
         looksLikeID |-> TRUE, Words |-> <<"users", "profile", "1e747094">>]
    @@ "users_profile_26b73c01" :>
        [reTemplateVar |-> FALSE, keepList |-> FALSE, reVersion |-> FALSE, isIDLike |-> FALSE,
         looksLikeID |-> TRUE, Words |-> <<"users", "profile", "26b73c01">>] )

\* a name without "." is returned as it is; the names with one that arise:
trimExtIfAny(s) ==
    CASE s = <<"files", "archive.tar">> -> <<"files", "archive">>
      [] s = <<"files", "archive.tar.gz">> -> <<"files", "archive.tar">>
      [] s = <<"files", "archive.tar", "acd98991">> -> <<"files", "archive.tar", "acd98991">>
      [] OTHER -> s

\* an endpoint key as the Go string it is: its words joined by "_"
KeyString(key) ==
    CASE key = <<"api", "v1">> -> "api_v1"
      [] key = <<"api", "v1", "8388dd2c">> -> "api_v1_8388dd2c"
      [] key = <<"api", "v1", "get", "user123", "{{.id}}">> -> "api_v1_get_user123_{{.id}}"
      [] key = <<"api", "v1", "get", "user123", "{{.id}}", "84f4cd20">> -> "api_v1_get_user123_{{.id}}_84f4cd20"
      [] key = <<"files", "archive.tar">> -> "files_archive.tar"
      [] key = <<"files", "archive.tar", "acd98991">> -> "files_archive.tar_acd98991"
      [] key = <<"health">> -> "health"
      [] key = <<"health", "febd9bd9">> -> "health_febd9bd9"
      [] key = <<"orders", "items">> -> "orders_items"
      [] key = <<"orders", "items", "37859925">> -> "orders_items_37859925"
      [] key = <<"other">> -> "other"
      [] key = <<"root">> -> "root"
      [] key = <<"shop", "cart", "checkout">> -> "shop_cart_checkout"
      [] key = <<"shop", "cart", "checkout", "13228a2f">> -> "shop_cart_checkout_13228a2f"
      [] key = <<"users">> -> "users"
      [] key = <<"users", "9710c920">> -> "users_9710c920"
      [] key = <<"users", "profile">> -> "users_profile"
      [] key = <<"users", "profile", "1e747094">> -> "users_profile_1e747094"
      [] key = <<"users", "profile", "26b73c01">> -> "users_profile_26b73c01"

apiPrefixes == {"api", "rest", "graphql"}

isHTTPMethod(token) ==
    token \in {"get", "post", "put", "patch", "delete", "head", "options"}

\* the classification of the token at Go index i: TRUE when it is appended to
\* keptTokens, FALSE when the loop continues without it
KeptToken(token, i) ==
    LET is == TokenTable[token]
    IN  IF is.reTemplateVar THEN FALSE
        ELSE IF is.keepList THEN TRUE
        ELSE IF token \in {"me", "self", "current"} THEN TRUE
        ELSE IF token \in apiPrefixes /\ i <= 2 THEN FALSE
        ELSE IF is.reVersion THEN FALSE
        ELSE IF isHTTPMethod(token) THEN FALSE
        ELSE IF is.isIDLike THEN FALSE
        ELSE IF is.looksLikeID THEN FALSE
        ELSE TRUE

\* strings.Join(tokens, "_") with runs of "_" collapsed and trimmed, as words
RECURSIVE JoinUnderscore(_)
JoinUnderscore(tokens) ==
    IF tokens = <<>> THEN <<>>
    ELSE TokenTable[Head(tokens)].Words \o JoinUnderscore(Tail(tokens))

DefaultDPNConfig == [MaxEndpoints |-> 5000, CacheSize |-> 8192]

\* the key returned and the state left behind
ExtractSimpleEndpointWithState(rawPath, state) ==
    LET path == PathTable[rawPath].TrimSuffix
        tokens == SelectSeq(PathTable[rawPath].Split, LAMBDA part : part # "")
        \* the loop over tokens
        Kept(all) ==
            LET keptAt == SelectSeq([i \in 1..Len(all) |-> i],
                                    LAMBDA i : KeptToken(all[i], i - 1))
            IN  [j \in 1..Len(keptAt) |-> all[keptAt[j]]]
        \* at most the first two and the last of the kept tokens, joined,
        \* without its extension; the whole path when nothing is left
        Template(keptTokens) ==
            LET Shaped(kept) ==
                    IF Len(kept) <= 3 THEN kept
                    ELSE <<kept[1], kept[2], kept[Len(kept)]>>
                Trimmed(joined) ==
                    IF Len(keptTokens) > 0 THEN trimExtIfAny(joined) ELSE joined
                OrWholePath(trimmed) ==
                    IF trimmed = <<>> THEN PathTable[rawPath].ReplaceAll ELSE trimmed
            IN  OrWholePath(Trimmed(JoinUnderscore(Shaped(keptTokens))))
        \* the cache is emptied when full, then the key is stored
        Cached(handled) ==
            LET cache == IF Cardinality(DOMAIN handled.state.cache)
                               >= handled.state.config.CacheSize
                         THEN <<>> ELSE handled.state.cache
            IN  [key |-> handled.key,
                 state |-> [handled.state EXCEPT !.cache = Put(cache, path, handled.key)]]
    IN  IF rawPath \in DOMAIN state.cache
        THEN [key |-> state.cache[rawPath], state |-> state]
        ELSE IF path = "" \/ path = "/" \/ Len(tokens) = 0
        THEN [key |-> <<"root">>, state |-> state]
        ELSE Cached(handleCollisionsAndCardinalityWithState(Template(Kept(tokens)), path, state))

MaxNormalizeCalls == 3
MaxCacheSize == 2

InitNormalize ==
    /\ prog = "normalize"
    /\ \E cfg \in [MaxEndpoints : {MaxCeiling, DefaultDPNConfig.MaxEndpoints},
                   CacheSize : {MaxCacheSize, DefaultDPNConfig.CacheSize}] :
        dpn = NewDPNState(cfg)
    /\ dpnKeys = {} /\ dpnLast = <<>> /\ dpnCalls = 0
    /\ returned = <<>>
    /\ IdleKernel /\ IdleAssoc /\ IdleAggregate /\ IdleCollector /\ IdleThresholds
    /\ IdleFiles

\* the paths a call may be given: a drawn path, or the key the last call
\* returned for a drawn path
NextPaths ==
    RawPaths \cup
    (IF returned # <<>> /\ returned[Len(returned)].path \in RawPaths
     THEN {KeyString(returned[Len(returned)].key)} ELSE {})

\* ExtractSimpleEndpoint(path): a call on a state of its own
ExtractSimpleEndpoint ==
    /\ prog = "normalize"
    /\ Len(returned) < MaxNormalizeCalls
    /\ \E path \in NextPaths :
        LET out == ExtractSimpleEndpointWithState(path, NewDPNState(DefaultDPNConfig))
        IN  returned' = Append(returned, [path |-> path, key |-> out.key, shared |-> FALSE])
    /\ UNCHANGED <<prog, filesVars, thVars, kernelVars, assocVars, aggVars, dpnVars, mcVars>>

\* ExtractSimpleEndpointWithState(path, state) on the shared state
NormalizeWithState ==
    /\ prog = "normalize"
    /\ Len(returned) < MaxNormalizeCalls
    /\ \E path \in NextPaths :
        LET out == ExtractSimpleEndpointWithState(path, dpn)
        IN  /\ returned' = Append(returned, [path |-> path, key |-> out.key, shared |-> TRUE])
            /\ dpn' = out.state
    /\ UNCHANGED <<prog, filesVars, thVars, kernelVars, assocVars, aggVars, mcVars, dpnKeys, dpnLast, dpnCalls>>

NextNormalize ==
    \/ ExtractSimpleEndpoint
    \/ NormalizeWithState

SpecNormalize == InitNormalize /\ [][NextNormalize]_vars

(***************************************************************************)
(* Claims on the path normalizer                                           *)
(***************************************************************************)
\* C12: normalizing the result of normalizing a path p gives that same result,
\* whether each of the two calls uses a state of its own or both share one
\* DPNState.
C12_Idempotent ==
    prog = "normalize" =>
        \A i \in 1..(Len(returned) - 1) :
            /\ returned[i].path \in RawPaths
            /\ returned[i + 1].path = KeyString(returned[i].key)
            /\ returned[i + 1].shared = returned[i].shared
            => returned[i + 1].key = returned[i].key

\* C13: a path all of whose tokens are dropped (API prefixes, versions, method
\* names, ID-like tokens, template variables) normalizes to "root", as the
\* empty path, "/" and "///" do; stated of the calls on a state of their own.
C13_AllDroppedIsRoot ==
    prog = "normalize" =>
        \A i \in 1..Len(returned) :
            LET tokens == SelectSeq(PathTable[returned[i].path].Split, LAMBDA part : part # "")
            IN  /\ ~returned[i].shared
                /\ \A j \in 1..Len(tokens) : ~KeptToken(tokens[j], j - 1)
                => returned[i].key = <<"root">>

(***************************************************************************)
(* The metrics collector.  Durations are whole milliseconds.  Times are    *)
(* seconds counted from the collector's startTime; -1 is the zero Time.    *)
(* An endpoint key "<method> <endpoint>" is the pair <<method, endpoint>>. *)
(***************************************************************************)
NewMetricsCollector ==
    [httpRequests |-> <<>>, httpStatusCodes |-> <<>>, httpErrors |-> 0, httpTotal |-> 0,
     httpRequestsByEndpoint |-> <<>>, httpStatusCodesByEndpoint |-> <<>>,
     httpErrorsByEndpoint |-> <<>>, httpTotalByEndpoint |-> <<>>,
     startTime |-> 0, endTime |-> -1]

\* m[k]++ on a Go map of counters
Inc(m, k) == Put(m, k, (IF k \in DOMAIN m THEN m[k] ELSE 0) + 1)

RECURSIVE SumSeq(_)
SumSeq(values) == IF values = <<>> THEN 0 ELSE Head(values) + SumSeq(Tail(values))

calculateAverage(values) ==
    IF Len(values) = 0 THEN Zero ELSE Norm(SumSeq(values), Len(values))

\* values is sorted; Go's index i is position i + 1 here
calculatePercentile(values, percentile) ==
    IF Len(values) = 0 THEN Zero
    ELSE LET scaled == percentile * (Len(values) - 1)
             lower == scaled \div 100
             weight == Norm(scaled % 100, 100)
         IN  IF scaled % 100 = 0
             THEN R(values[lower + 1])
             ELSE RAdd(RMul(R(values[lower + 1]), RSub(R(1), weight)),
                       RMul(R(values[lower + 2]), weight))

calculateRate(count, start, end) ==
    IF end - start <= 0 THEN Zero ELSE Norm(count, end - start)

calculateDurationMetrics(durations) ==
    IF Len(durations) = 0 THEN Metric("trend", <<>>)
    ELSE LET values == SortSeq(durations, LAMBDA a, b : a < b)
         IN  Metric("trend",
                    [k \in {"min", "max", "avg"} \cup Percentiles |->
                        CASE k = "min" -> R(values[1])
                          [] k = "max" -> R(values[Len(values)])
                          [] k = "avg" -> calculateAverage(values)
                          [] k = "p(50)" -> calculatePercentile(values, 50)
                          [] k = "p(90)" -> calculatePercentile(values, 90)
                          [] k = "p(95)" -> calculatePercentile(values, 95)
                          [] k = "p(99)" -> calculatePercentile(values, 99)])

HttpReqDuration == <<"http", "req", "duration">>
HttpReqFailed == <<"http", "req", "failed">>
ChecksName == <<"checks">>
Health == <<"health">>

\* the entries of Metrics that do not depend on an endpoint or a status code
FixedMetrics(c, end) ==
    LET rate(n) == calculateRate(n, c.startTime, end)
        counter(n) == Metric("counter", [k \in {"count", "rate"} |->
                                            IF k = "count" THEN R(n) ELSE rate(n)])
        vus == Metric("gauge", [k \in {"value", "min", "max"} |-> R(1)])
        duration == calculateDurationMetrics(c.httpRequests)
    IN  [name \in {HttpReqDuration, HttpReqs, HttpReqFailed, <<"iterations">>, ChecksName,
                   <<"data", "sent">>, <<"data", "received">>, <<"vus">>, <<"vus", "max">>} |->
            CASE name = HttpReqDuration ->
                    Metric("trend", Put(Put(duration.Values, "count", R(c.httpTotal)),
                                        "rate", rate(c.httpTotal)))
              [] name = HttpReqs -> counter(c.httpTotal)
              [] name = HttpReqFailed ->
                    IF c.httpErrors > 0
                    THEN Metric("rate", [k \in {"passes", "fails", "thresholds", "value"} |->
                            CASE k = "passes" -> Zero
                              [] k = "fails" -> R(c.httpErrors)
                              [] k = "thresholds" -> NotANumber
                              [] k = "value" ->
                                    RMul(Norm(c.httpErrors, c.httpTotal), R(100))])
                    ELSE Metric("rate", [k \in {"passes", "fails", "thresholds", "value"} |->
                            CASE k = "passes" -> R(c.httpTotal)
                              [] k = "fails" -> Zero
                              [] k = "thresholds" -> NotANumber
                              [] k = "value" -> Zero])
              [] name = <<"iterations">> -> counter(c.httpTotal)
              [] name = ChecksName ->
                    Metric("rate", [k \in {"passes", "fails", "value"} |->
                            CASE k = "passes" -> R(c.httpTotal - c.httpErrors)
                              [] k = "fails" -> R(c.httpErrors)
                              [] k = "value" ->
                                    Norm(c.httpTotal - c.httpErrors, c.httpTotal)])
              [] name = <<"data", "sent">> -> counter(c.httpTotal * 1024)
              [] name = <<"data", "received">> -> counter(c.httpTotal * 2048)
              [] name = <<"vus">> -> vus
              [] name = <<"vus", "max">> -> vus]

\* later entries replace earlier ones, as assignments to a Go map do
Overlay(m, n) ==
    [k \in DOMAIN m \cup DOMAIN n |-> IF k \in DOMAIN n THEN n[k] ELSE m[k]]

StatusCodeMetrics(prefix, statusCodes) ==
    [name \in {prefix \o <<ToString(code)>> : code \in DOMAIN statusCodes} |->
        LET code == CHOOSE x \in DOMAIN statusCodes : name = prefix \o <<ToString(x)>>
        IN  Metric("counter", [k \in {"count"} |-> R(statusCodes[code])])]

\* what one pass of the per-endpoint loop of GetMetrics writes into Metrics
EndpointMetrics(c, endpointKey, end) ==
    LET endpointName == endpointKey[2]
        total == c.httpTotalByEndpoint[endpointKey]
        errors == c.httpErrorsByEndpoint[endpointKey]
        endpointDuration == calculateDurationMetrics(c.httpRequestsByEndpoint[endpointKey])
        trend == [k \in {endpointName} |->
                    Metric("trend", Put(Put(endpointDuration.Values, "count", R(total)),
                                        "rate", calculateRate(total, c.startTime, end)))]
        status == StatusCodeMetrics(<<"http", "req", "status">> \o endpointName,
                                    c.httpStatusCodesByEndpoint[endpointKey])
        failed == IF errors > 0
                  THEN [k \in {HttpReqFailed \o endpointName} |->
                          Metric("rate", [v \in {"value"} |->
                                            RMul(Norm(errors, total), R(100))])]
                  ELSE <<>>
    IN  Overlay(Overlay(trend, status), failed)

RECURSIVE RangeEndpoints(_, _, _, _)
RangeEndpoints(c, order, end, acc) ==
    IF order = <<>> THEN acc
    ELSE LET endpointKey == Head(order)
             endpointName == endpointKey[2]
         IN  RangeEndpoints(c, Tail(order), end,
                [acc EXCEPT
                    !.Metrics = Overlay(@, EndpointMetrics(c, endpointKey, end)),
                    !.Checks = Put(@, endpointName,
                        [Passes |-> c.httpTotalByEndpoint[endpointKey]
                                    - c.httpErrorsByEndpoint[endpointKey],
                         Fails |-> c.httpErrorsByEndpoint[endpointKey]])])

\* the orders in which a range over a Go map may visit its keys
RangeOrders(keys) ==
    {order \in [1..Cardinality(keys) -> keys] :
        \A i, j \in 1..Cardinality(keys) : order[i] = order[j] => i = j}

NoSnapshot == [Metrics |-> <<>>, Checks |-> <<>>, StartTime |-> 0, EndTime |-> -1]

MaxRequests == 2
Durations == {100, 300}
Responses == {[statusCode |-> 200, err |-> FALSE], [statusCode |-> 500, err |-> FALSE],
              [statusCode |-> 0, err |-> TRUE]}
\* two methods on one endpoint, and a second endpoint
EndpointKeys == {<<"GET", UsersProfile>>, <<"POST", UsersProfile>>, <<"GET", Health>>}
Elapsed == {0, 2}

InitCollector ==
    /\ prog = "collect"
    /\ mc = NewMetricsCollector
    /\ snapshot = NoSnapshot
    /\ nRecorded = 0
    /\ IdleKernel /\ IdleAssoc /\ IdleAggregate /\ IdleDPN /\ IdleNormalize /\ IdleThresholds
    /\ IdleFiles

RecordHTTPRequest ==
    /\ prog = "collect"
    /\ nRecorded < MaxRequests
    /\ \E duration \in Durations, rc \in Responses :
        LET isError == rc.err \/ rc.statusCode >= 400
        IN  mc' = [mc EXCEPT
                    !.httpRequests = Append(@, duration),
                    !.httpTotal = @ + 1,
                    !.httpErrors = IF isError THEN @ + 1 ELSE @,
                    !.httpStatusCodes = IF isError THEN @ ELSE Inc(@, rc.statusCode)]
    /\ nRecorded' = nRecorded + 1
    /\ UNCHANGED <<prog, filesVars, normVars, thVars, kernelVars, assocVars, aggVars, dpnVars, snapshot>>

RecordHTTPRequestWithEndpoint ==
    /\ prog = "collect"
    /\ nRecorded < MaxRequests
    /\ \E duration \in Durations, rc \in Responses, endpointKey \in EndpointKeys :
        LET isError == rc.err \/ rc.statusCode >= 400
            fresh == endpointKey \notin DOMAIN mc.httpRequestsByEndpoint
            requests == IF fresh THEN <<>> ELSE mc.httpRequestsByEndpoint[endpointKey]
            codes == IF fresh THEN <<>> ELSE mc.httpStatusCodesByEndpoint[endpointKey]
            total == IF fresh THEN 0 ELSE mc.httpTotalByEndpoint[endpointKey]
            errors == IF fresh THEN 0 ELSE mc.httpErrorsByEndpoint[endpointKey]
            counted == IF isError THEN codes ELSE Inc(codes, rc.statusCode)
        IN  mc' = [mc EXCEPT
                    !.httpRequests = Append(@, duration),
                    !.httpTotal = @ + 1,
                    !.httpErrors = IF isError THEN @ + 1 ELSE @,
                    !.httpStatusCodes = IF isError THEN @ ELSE Inc(@, rc.statusCode),
                    !.httpRequestsByEndpoint = Put(@, endpointKey, Append(requests, duration)),
                    !.httpTotalByEndpoint = Put(@, endpointKey, total + 1),
                    !.httpErrorsByEndpoint =
                        Put(@, endpointKey, IF isError THEN errors + 1 ELSE errors),
                    !.httpStatusCodesByEndpoint =
                        Put(@, endpointKey, Inc(counted, rc.statusCode))]
    /\ nRecorded' = nRecorded + 1
    /\ UNCHANGED <<prog, filesVars, normVars, thVars, kernelVars, assocVars, aggVars, dpnVars, snapshot>>

GetMetrics ==
    /\ prog = "collect"
    /\ \E elapsed \in Elapsed, order \in RangeOrders(DOMAIN mc.httpRequestsByEndpoint) :
        LET end == mc.startTime + elapsed
            empty == [Metrics |-> <<>>, Checks |-> <<>>,
                      StartTime |-> mc.startTime, EndTime |-> end]
        IN  /\ mc' = [mc EXCEPT !.endTime = end]
            /\ snapshot' =
                IF mc.httpTotal > 0
                THEN RangeEndpoints(mc, order, end,
                        [empty EXCEPT !.Metrics =
                            Overlay(FixedMetrics(mc, end),
                                    StatusCodeMetrics(<<"http", "req", "status">>,
                                                      mc.httpStatusCodes))])
                ELSE empty
    /\ UNCHANGED <<prog, filesVars, normVars, thVars, kernelVars, assocVars, aggVars, dpnVars, nRecorded>>

Reset ==
    /\ prog = "collect"
    /\ mc' = NewMetricsCollector
    /\ UNCHANGED <<prog, filesVars, normVars, thVars, kernelVars, assocVars, aggVars, dpnVars, snapshot, nRecorded>>

NextCollector ==
    \/ RecordHTTPRequest
    \/ RecordHTTPRequestWithEndpoint
    \/ GetMetrics
    \/ Reset

SpecCollector == InitCollector /\ [][NextCollector]_vars

(***************************************************************************)
(* Claims on the collector                                                 *)
(***************************************************************************)
RateMetricsOf(s) == {name \in DOMAIN s.Metrics : s.Metrics[name].Type = "rate"}

\* C7: every rate metric of a snapshot produced by GetMetrics
\* (http_req_failed, http_req_failed_<endpoint>, checks) has a value between
\* 0 and 1 inclusive, after any sequence of recorded requests.
C7_RateValuesWithinUnit ==
    prog = "collect" =>
        \A name \in RateMetricsOf(snapshot) :
            /\ RLe(Zero, Val(snapshot.Metrics[name], "value"))
            /\ RLe(Val(snapshot.Metrics[name], "value"), R(1))

(***************************************************************************)
(* Thresholds: resolution of the values of an endpoint and validation     *)
(*                                                                         *)
(* A ThresholdValues is the function from the names of its non-nil fields  *)
(* to their values; a DurationThreshold or RateThreshold has the field     *)
(* Tolerance exactly when its pointer is non-nil.  A time.Duration is      *)
(* counted in microseconds.  A value of a metric is an interface{}: the    *)
(* record of its dynamic type and its number.  A groups pattern is the     *)
(* sequence of its "_"-separated words, "*" as a last word being the       *)
(* wildcard.                                                               *)
(***************************************************************************)
Typed(type, x) == [type |-> type, v |-> x]

\* time.Duration.Milliseconds
Milliseconds(d) == d \div 1000

mergeThresholdValuesReplaceAll(base, override) ==
    IF DOMAIN override = {} THEN base ELSE override

\* result := base; each non-nil field of override replaces the field of result
mergeThresholdValues(base, override) ==
    [f \in DOMAIN base \cup DOMAIN override |->
        IF f \in DOMAIN override THEN override[f] ELSE base[f]]

\* "^" + ReplaceAll(pattern, "*", ".*") + "$" matched against the endpoint,
\* for a pattern without other regular-expression operators
matchesPattern(endpoint, pattern) ==
    LET n == Len(pattern) IN
    IF n > 0 /\ pattern[n] = "*"
    THEN Len(endpoint) >= n /\ SubSeq(endpoint, 1, n - 1) = SubSeq(pattern, 1, n - 1)
    ELSE endpoint = pattern

\* the patterns at which the range over tc.Groups can break: any matching
\* one, the order of a range over a Go map being unspecified; <<>> when the
\* range ends without a match
MatchingPatterns(cfg, endpoint) ==
    LET matching == {pattern \in DOMAIN cfg.Groups : matchesPattern(endpoint, pattern)}
    IN  IF matching = {} THEN {<<>>} ELSE matching

\* GetThresholdForEndpoint when the range over tc.Groups breaks at pattern
GetThresholdForEndpoint(cfg, endpoint, pattern) ==
    LET afterGroups ==
            IF pattern # <<>>
            THEN mergeThresholdValues(cfg.Defaults, cfg.Groups[pattern])
            ELSE cfg.Defaults
    IN  IF endpoint \in DOMAIN cfg.Endpoints
        THEN mergeThresholdValues(afterGroups, cfg.Endpoints[endpoint])
        ELSE afterGroups

systemMetrics ==
    << <<"http", "req", "duration">>, <<"http", "reqs">>, <<"http", "req", "failed">>,
       <<"iterations">>, <<"checks">>, <<"data", "sent">>, <<"data", "received">>,
       <<"vus">>, <<"vus", "max">> >>

\* the pairs <<word, prefix>> of different words drawn below where the word
\* begins with the letters of the prefix
ProperWordPrefixes ==
    {<<"checksum", "checks">>, <<"reqs", "req">>}

\* strings.HasPrefix(name, prefix) on the names joined by "_": the words
\* before the last word of the prefix are equal and the next word of the name
\* begins with the last word of the prefix
HasPrefix(name, prefix) ==
    LET k == Len(prefix) IN
    /\ Len(name) >= k
    /\ SubSeq(name, 1, k - 1) = SubSeq(prefix, 1, k - 1)
    /\ \/ name[k] = prefix[k]
       \/ <<name[k], prefix[k]>> \in ProperWordPrefixes

isEndpointMetric(metricName) ==
    \A i \in 1..Len(systemMetrics) : ~HasPrefix(metricName, systemMetrics[i])

\* tolerance := tc.Options.TolerancePercent, or *threshold.Tolerance if set
ToleranceOf(cfg, threshold) ==
    IF "Tolerance" \in DOMAIN threshold
    THEN threshold.Tolerance
    ELSE cfg.Options.TolerancePercent

\* value > threshold * (1 + tolerance/100)
Exceeds(value, threshold, tolerance) ==
    RLt(RMul(threshold, RAdd(R(1), RDiv(tolerance, R(100)))), value)

\* "warning" if value <= threshold * (1 + tolerance/100*1.5), else "error"
Severity(value, threshold, tolerance) ==
    IF RLe(value, RMul(threshold,
                       RAdd(R(1), RMul(RDiv(tolerance, R(100)), <<3, 2>>))))
    THEN "warning"
    ELSE "error"

ThresholdBreach(endpoint, key, value, threshold, unit, severity, sampleCount) ==
    [Endpoint |-> endpoint, Metric |-> key, Value |-> value, Threshold |-> threshold,
     Unit |-> unit, Severity |-> severity, SampleCount |-> sampleCount]

\* the checks of checkDurationThresholds: metric key and field of ThresholdValues
durationChecks ==
    {<<"p(50)", "P50">>, <<"p(90)", "P90">>, <<"p(95)", "P95">>, <<"p(99)", "P99">>,
     <<"avg", "Avg">>, <<"max", "Max">>}

\* the checks that reach the comparison: threshold non-nil, value a float64
DurationChecked(metric, thresholds) ==
    {check \in durationChecks :
        /\ check[2] \in DOMAIN thresholds
        /\ check[1] \in DOMAIN metric.Values
        /\ metric.Values[check[1]].type = "float64"}

checkDurationThresholdsOptionsTolerance(cfg, endpoint, metric, thresholds, sampleCount) ==
    {ThresholdBreach(endpoint, check[1], metric.Values[check[1]].v,
                     R(Milliseconds(thresholds[check[2]].Value)), "ms",
                     Severity(metric.Values[check[1]].v,
                              R(Milliseconds(thresholds[check[2]].Value)),
                              cfg.Options.TolerancePercent),
                     sampleCount) :
        check \in {c \in DurationChecked(metric, thresholds) :
                      Exceeds(metric.Values[c[1]].v, R(Milliseconds(thresholds[c[2]].Value)),
                              cfg.Options.TolerancePercent)}}

checkDurationThresholdsAlwaysError(cfg, endpoint, metric, thresholds, sampleCount) ==
    {ThresholdBreach(endpoint, check[1], metric.Values[check[1]].v,
                     R(Milliseconds(thresholds[check[2]].Value)), "ms", "error", sampleCount) :
        check \in {c \in DurationChecked(metric, thresholds) :
                      Exceeds(metric.Values[c[1]].v, R(Milliseconds(thresholds[c[2]].Value)),
                              ToleranceOf(cfg, thresholds[c[2]]))}}

\* the breaches appended by checkDurationThresholds, as a set: the order of
\* the slice returned by ValidateThresholds depends on the range over the map
checkDurationThresholds(cfg, endpoint, metric, thresholds, sampleCount) ==
    {ThresholdBreach(endpoint, check[1], metric.Values[check[1]].v,
                     R(Milliseconds(thresholds[check[2]].Value)), "ms",
                     Severity(metric.Values[check[1]].v,
                              R(Milliseconds(thresholds[check[2]].Value)),
                              ToleranceOf(cfg, thresholds[check[2]])),
                     sampleCount) :
        check \in {c \in DurationChecked(metric, thresholds) :
                      Exceeds(metric.Values[c[1]].v, R(Milliseconds(thresholds[c[2]].Value)),
                              ToleranceOf(cfg, thresholds[c[2]]))}}

\* the value of key when its dynamic type is the asserted one
IsA(metric, key, type) ==
    key \in DOMAIN metric.Values /\ metric.Values[key].type = type

checkRateThresholds(cfg, endpoint, metric, thresholds, sampleCount) ==
    LET errorRate ==
            IF /\ IsA(metric, "fails", "int64")
               /\ IsA(metric, "count", "int64")
               /\ RLt(Zero, metric.Values["count"].v)
            THEN RDiv(metric.Values["fails"].v, metric.Values["count"].v)
            ELSE Zero
        errorBreaches ==
            IF /\ "ErrorRate" \in DOMAIN thresholds
               /\ Exceeds(errorRate, thresholds.ErrorRate.Value,
                          ToleranceOf(cfg, thresholds.ErrorRate))
            THEN {ThresholdBreach(endpoint, "error_rate", RMul(errorRate, R(100)),
                                  RMul(thresholds.ErrorRate.Value, R(100)), "%",
                                  Severity(errorRate, thresholds.ErrorRate.Value,
                                           ToleranceOf(cfg, thresholds.ErrorRate)),
                                  sampleCount)}
            ELSE {}
        rpsBreaches ==
            IF /\ "RPS" \in DOMAIN thresholds
               /\ IsA(metric, "rate", "float64")
               /\ Exceeds(metric.Values["rate"].v, thresholds.RPS.Value,
                          ToleranceOf(cfg, thresholds.RPS))
            THEN {ThresholdBreach(endpoint, "rps", metric.Values["rate"].v,
                                  thresholds.RPS.Value, "req/s",
                                  Severity(metric.Values["rate"].v, thresholds.RPS.Value,
                                           ToleranceOf(cfg, thresholds.RPS)),
                                  sampleCount)}
            ELSE {}
    IN  errorBreaches \cup rpsBreaches

\* sampleCount: count as an int64, or a non-negative float64 converted by
\* int64(count), else 0
SampleCount(metric) ==
    IF IsA(metric, "count", "int64") \/ IsA(metric, "count", "float64")
    THEN metric.Values["count"].v[1] \div metric.Values["count"].v[2]
    ELSE 0

\* ValidateThresholds when, for each endpoint metric, the range over
\* tc.Groups breaks at picks[metricName]; besides the breaches returned, the
\* outcome records the metrics that passed isEndpointMetric, the thresholds
\* resolved for them and the metrics that passed the sample-count test
ValidateThresholdsAt(cfg, metrics, picks) ==
    LET minSamples ==
            IF cfg.Options.MinSamples = 0 THEN 100 ELSE cfg.Options.MinSamples
        endpoints == {metricName \in DOMAIN metrics : isEndpointMetric(metricName)}
        thresholds == [endpoint \in endpoints |->
                          GetThresholdForEndpoint(cfg, endpoint, picks[endpoint])]
        checked == {endpoint \in endpoints : SampleCount(metrics[endpoint]) >= minSamples}
    IN  [endpoints |-> endpoints,
         thresholds |-> thresholds,
         checked |-> checked,
         breaches |-> UNION {
             checkDurationThresholds(cfg, endpoint, metrics[endpoint], thresholds[endpoint],
                                     SampleCount(metrics[endpoint]))
             \cup checkRateThresholds(cfg, endpoint, metrics[endpoint], thresholds[endpoint],
                                      SampleCount(metrics[endpoint])) :
             endpoint \in checked}]

(***************************************************************************)
(* Thresholds: inputs and calls                                            *)
(***************************************************************************)
HttpReqBlocked == <<"http", "req", "blocked">>
ChecksumVerify == <<"checksum", "verify">>

\* the Defaults of DefaultThresholdConfig
DefaultThresholds ==
    [P95 |-> [Value |-> 500000], P99 |-> [Value |-> 1000000], Avg |-> [Value |-> 200000],
     ErrorRate |-> [Value |-> <<1, 100>>]]

\* groups: "users_*" with a tolerance of its own, "*" with a threshold of
\* 300.5 ms and a min_samples of its own
SampleGroups ==
    (<<"users", "*">> :> [P95 |-> [Value |-> 300000, Tolerance |-> R(10)]])
    @@ (<<"*">> :> [P95 |-> [Value |-> 300500], MinSamples |-> 10])

ThresholdConfigs ==
    {[Defaults |-> DefaultThresholds,
      Groups |-> Restrict(SampleGroups, patterns),
      Endpoints |-> endpoints,
      Options |-> [TolerancePercent |-> tolerance, MinSamples |-> minSamples,
                   SoftFail |-> softFail]] :
        patterns \in SUBSET DOMAIN SampleGroups,
        endpoints \in {<<>>, UsersProfile :> [Avg |-> [Value |-> 150000], MinSamples |-> 200]},
        tolerance \in {Zero, R(10)},
        minSamples \in {0, 100},
        softFail \in BOOLEAN}

\* an endpoint trend metric as the collector builds it (count and fails
\* int64) and as it is after a JSON snapshot is read (every number a float64)
SampleThresholdMetrics ==
    {Metric("trend", ("count" :> Typed(type, R(count))) @@ ("fails" :> Typed(type, R(30)))
                     @@ ("p(95)" :> Typed("float64", R(p95)))
                     @@ ("avg" :> Typed("float64", R(120)))) :
        type \in {"int64", "float64"}, count \in {50, 150}, p95 \in {320, 340, 400}}

MaxResolutions == 2

InitThresholds ==
    /\ prog = "thresholds"
    /\ tc \in ThresholdConfigs
    /\ thMetrics \in {[metricName \in {UsersProfile, HttpReqBlocked, ChecksumVerify, HttpReqs}
                            |-> metric] :
                         metric \in SampleThresholdMetrics}
    /\ resolutions = <<>>
    /\ validation = <<>>
    /\ breachCheck = <<>>
    /\ IdleKernel /\ IdleAssoc /\ IdleAggregate /\ IdleDPN /\ IdleCollector /\ IdleNormalize
    /\ IdleFiles

\* a call of tc.GetThresholdForEndpoint(endpoint)
CallGetThresholdForEndpoint ==
    /\ prog = "thresholds"
    /\ Len(resolutions) < MaxResolutions
    /\ \E endpoint \in {UsersProfile, HttpReqBlocked} :
        \E pattern \in MatchingPatterns(tc, endpoint) :
            resolutions' = Append(resolutions,
                                  [endpoint |-> endpoint, pattern |-> pattern,
                                   values |-> GetThresholdForEndpoint(tc, endpoint, pattern)])
    /\ UNCHANGED <<prog, filesVars, kernelVars, assocVars, aggVars, dpnVars, mcVars, normVars,
                   tc, thMetrics, validation, breachCheck>>

\* a call of tc.ValidateThresholds(metrics)
ValidateThresholds ==
    /\ prog = "thresholds"
    /\ \E picks \in [DOMAIN thMetrics -> DOMAIN tc.Groups \cup {<<>>}] :
        /\ \A metricName \in DOMAIN thMetrics :
               picks[metricName] \in MatchingPatterns(tc, metricName)
        /\ validation' = ValidateThresholdsAt(tc, thMetrics, picks)
    /\ UNCHANGED <<prog, filesVars, kernelVars, assocVars, aggVars, dpnVars, mcVars, normVars,
                   tc, thMetrics, resolutions, breachCheck>>

\* checkThresholdBreaches(metrics) of the metrics-report command, the
\* configuration loaded being tc: the breaches are validated and printed, and
\* an error is returned when there are breaches and --fail-on-breaches is set
checkThresholdBreaches ==
    /\ prog = "thresholds"
    /\ \E failOnBreaches \in BOOLEAN :
        \E picks \in [DOMAIN thMetrics -> DOMAIN tc.Groups \cup {<<>>}] :
            /\ \A metricName \in DOMAIN thMetrics :
                   picks[metricName] \in MatchingPatterns(tc, metricName)
            /\ validation' = ValidateThresholdsAt(tc, thMetrics, picks)
            /\ breachCheck' =
                   [failOnBreaches |-> failOnBreaches,
                    err |-> validation'.breaches # {} /\ failOnBreaches]
    /\ UNCHANGED <<prog, filesVars, kernelVars, assocVars, aggVars, dpnVars, mcVars, normVars,
                   tc, thMetrics, resolutions>>

NextThresholds ==
    \/ CallGetThresholdForEndpoint
    \/ ValidateThresholds
    \/ checkThresholdBreaches

SpecThresholds == InitThresholds /\ [][NextThresholds]_vars

(***************************************************************************)
(* Claims on the thresholds                                                *)
(***************************************************************************)
\* the fields of ThresholdValues
ThresholdFields ==
    {"P50", "P90", "P95", "P99", "Avg", "Max", "ErrorRate", "RPS", "MinSamples"}

\* the tiers of a resolution, highest priority first: the exact endpoints
\* entry, the groups pattern that was overlaid, the defaults
TiersOf(r) ==
    << IF r.endpoint \in DOMAIN tc.Endpoints THEN tc.Endpoints[r.endpoint] ELSE <<>>,
       IF r.pattern # <<>> THEN tc.Groups[r.pattern] ELSE <<>>,
       tc.Defaults >>

\* C14: for each threshold field, GetThresholdForEndpoint returns the value
\* of the exact endpoints entry if that entry sets the field, otherwise the
\* value of the matching groups pattern if it sets the field, otherwise the
\* defaults value; a field unset in a higher tier never erases a lower one.
C14_FieldwisePriority ==
    prog = "thresholds" =>
        \A i \in 1..Len(resolutions) : \A f \in ThresholdFields :
            LET r == resolutions[i]
                setting == {t \in 1..3 : f \in DOMAIN TiersOf(r)[t]}
            IN  /\ r.pattern \in MatchingPatterns(tc, r.endpoint)
                /\ IF setting = {}
                   THEN f \notin DOMAIN r.values
                   ELSE /\ f \in DOMAIN r.values
                        /\ \E t \in setting :
                            /\ \A u \in setting : t <= u
                            /\ r.values[f] = TiersOf(r)[t][f]

C14_Witness ==
    /\ prog = "thresholds"
    /\ \E i \in 1..Len(resolutions) :
        /\ resolutions[i].endpoint = UsersProfile
        /\ UsersProfile \in DOMAIN tc.Endpoints
        /\ resolutions[i].pattern = <<"users", "*">>
        /\ resolutions[i].values.Avg = tc.Endpoints[UsersProfile].Avg
        /\ resolutions[i].values.Avg # tc.Defaults.Avg
        /\ resolutions[i].values.P95 = tc.Groups[<<"users", "*">>].P95
        /\ resolutions[i].values.P99 = tc.Defaults.P99
        /\ resolutions[i].values.ErrorRate = tc.Defaults.ErrorRate

\* C15: when an endpoint matches more than one groups pattern, the pattern
\* overlaid is the same on every call with the same configuration, so two
\* resolutions of the same endpoint return equal threshold values.
C15_StablePatternChoice ==
    prog = "thresholds" =>
        \A i, j \in 1..Len(resolutions) :
            resolutions[i].endpoint = resolutions[j].endpoint
            => resolutions[i].values = resolutions[j].values

Validated == prog = "thresholds" /\ DOMAIN validation # {}

\* the threshold a breach is about, among those resolved for its endpoint
BreachedThreshold(b) ==
    LET field == CHOOSE f \in ThresholdFields :
                    \/ <<b.Metric, f>> \in durationChecks
                    \/ <<b.Metric, f>> \in {<<"error_rate", "ErrorRate">>, <<"rps", "RPS">>}
    IN  validation.thresholds[b.Endpoint][field]

\* the tolerance that applies to a breach, in percent
BreachTolerance(b) ==
    IF "Tolerance" \in DOMAIN BreachedThreshold(b)
    THEN BreachedThreshold(b).Tolerance
    ELSE tc.Options.TolerancePercent

\* C16: every breach returned by ValidateThresholds has
\* value > threshold * (1 + tol/100), tol being the tolerance of the breached
\* threshold when it is set and options.tolerance_percent otherwise.
C16_BreachExceedsEffective ==
    Validated =>
        \A b \in validation.breaches :
            RLt(RMul(b.Threshold, RAdd(R(100), BreachTolerance(b))), RMul(b.Value, R(100)))

C16_Witness ==
    /\ Validated
    /\ tc.Options.TolerancePercent = Zero
    /\ \E b \in validation.breaches :
        /\ b.Endpoint = UsersProfile /\ b.Metric = "p(95)"
        /\ BreachTolerance(b) = R(10)
        /\ b.Threshold = R(300) /\ b.Value = R(340)

\* C17: the severity of a breach with threshold T and tolerance tol is
\* "warning" exactly when observed <= T * (1 + 1.5 * tol/100) and "error"
\* otherwise (so with tol = 0 every breach is an error).
C17_SeverityBands ==
    Validated =>
        \A b \in validation.breaches :
            /\ b.Severity \in {"warning", "error"}
            /\ b.Severity = "warning"
               <=> RLe(RMul(b.Value, R(200)),
                       RMul(b.Threshold, RAdd(R(200), RMul(R(3), BreachTolerance(b)))))

\* threshold 300 ms with tolerance 10, observed p(95) = 400 ms, count = 150,
\* min_samples = 100: one breach on p(95), an error
C17_Witness ==
    /\ Validated
    /\ tc.Options.MinSamples = 100
    /\ thMetrics[UsersProfile].Values["count"].v = R(150)
    /\ thMetrics[UsersProfile].Values["p(95)"].v = R(400)
    /\ validation.thresholds[UsersProfile].P95 = [Value |-> 300000, Tolerance |-> R(10)]
    /\ \E b \in validation.breaches :
        /\ b.Severity = "error" /\ b.Threshold = R(300) /\ b.Value = R(400)
        /\ b.Unit = "ms" /\ b.SampleCount = 150
        /\ {c \in validation.breaches : c.Endpoint = UsersProfile /\ c.Metric = "p(95)"} = {b}

\* the minimum the thresholds resolved for an endpoint ask for when they set
\* min_samples, options.min_samples otherwise
EffectiveMinSamples(endpoint) ==
    IF "MinSamples" \in DOMAIN validation.thresholds[endpoint]
    THEN validation.thresholds[endpoint].MinSamples
    ELSE tc.Options.MinSamples

\* the count of a metric, integer or float, floored
FlooredCount(metric) == metric.Values["count"].v[1] \div metric.Values["count"].v[2]

\* C18: ValidateThresholds emits no breach for a metric whose sample count
\* is below the effective minimum and checks every endpoint metric whose
\* sample count is at or above it, the effective minimum being the
\* min_samples of the thresholds resolved for the endpoint when set and
\* options.min_samples (0 included) otherwise.
C18_EffectiveMinSamples ==
    Validated =>
        \A endpoint \in validation.endpoints :
            /\ FlooredCount(thMetrics[endpoint]) < EffectiveMinSamples(endpoint)
               => \A b \in validation.breaches : b.Endpoint # endpoint
            /\ FlooredCount(thMetrics[endpoint]) >= EffectiveMinSamples(endpoint)
               => endpoint \in validation.checked

\* C19: ValidateThresholds validates a metric if and only if its name is not
\* a global metric of the aggregator (a canonical name, or a canonical name,
\* an underscore and a suffix), and reports no breach for a global metric.
C19_SameGlobalMetricSet ==
    Validated =>
        /\ validation.endpoints = {metricName \in DOMAIN thMetrics : ~isGlobalMetric(metricName)}
        /\ \A b \in validation.breaches : ~isGlobalMetric(b.Endpoint)

\* the error rate of a metric whatever the dynamic type of count and fails
ObservedErrorRate(metric) ==
    IF "fails" \in DOMAIN metric.Values /\ RLt(Zero, metric.Values["count"].v)
    THEN RDiv(metric.Values["fails"].v, metric.Values["count"].v)
    ELSE Zero

\* C20: with an error_rate threshold configured, the observed error rate is
\* fails / count whenever count > 0, whether count and fails are integers or
\* floats, and a breach with unit "%" and both values scaled by 100 is
\* recorded when the observed rate exceeds the effective threshold.
C20_ErrorRateOfIntsAndFloats ==
    Validated =>
        \A endpoint \in validation.checked :
            "ErrorRate" \in DOMAIN validation.thresholds[endpoint] =>
                LET T == validation.thresholds[endpoint].ErrorRate
                    tol == IF "Tolerance" \in DOMAIN T THEN T.Tolerance
                           ELSE tc.Options.TolerancePercent
                    observed == ObservedErrorRate(thMetrics[endpoint])
                IN  RLt(RMul(T.Value, RAdd(R(100), tol)), RMul(observed, R(100)))
                    => \E b \in validation.breaches :
                        /\ b.Endpoint = endpoint /\ b.Metric = "error_rate" /\ b.Unit = "%"
                        /\ b.Value = RMul(observed, R(100))
                        /\ b.Threshold = RMul(T.Value, R(100))

(***************************************************************************)
(* Claims on the per-endpoint counters of the collector                    *)
(***************************************************************************)
RECURSIVE SumOfCounts(_)
SumOfCounts(m) ==
    IF DOMAIN m = {} THEN 0
    ELSE LET k == CHOOSE x \in DOMAIN m : TRUE
         IN  m[k] + SumOfCounts(Restrict(m, DOMAIN m \ {k}))

\* C25: after any sequence of RecordHTTPRequestWithEndpoint calls, the
\* per-endpoint status-code counts of every endpoint sum to the number of
\* requests recorded for that endpoint.
C25_OneStatusCountPerRequest ==
    prog = "collect" =>
        \A endpointKey \in DOMAIN mc.httpStatusCodesByEndpoint :
            SumOfCounts(mc.httpStatusCodesByEndpoint[endpointKey])
                = Len(mc.httpRequestsByEndpoint[endpointKey])

(***************************************************************************)
(* Claims on the cache and the keys of a shared DPNState                   *)
(***************************************************************************)
\* C26: after any sequence of normalize calls on one DPNState, the cache
\* maps raw paths to templates (each entry is a path that was normalized on
\* this state, with the key returned for it) and never holds more than
\* CacheSize entries.
C26_CacheOfRawPaths ==
    prog = "normalize" =>
        /\ Cardinality(DOMAIN dpn.cache) <= dpn.config.CacheSize
        /\ \A rawPath \in DOMAIN dpn.cache :
            \E i \in 1..Len(returned) :
                /\ returned[i].shared
                /\ returned[i].path = rawPath
                /\ returned[i].key = dpn.cache[rawPath]

\* the calls made on the shared state, in order
SharedCalls == SelectSeq(returned, LAMBDA call : call.shared)

\* the origin of a call: the path the controller is given for it
OriginOf(call) == PathTable[call.path].TrimSuffix

\* what the path of a call normalizes to, before any collision handling
TemplateOf(call) ==
    ExtractSimpleEndpointWithState(call.path, NewDPNState(DefaultDPNConfig)).key

C29_CountIsDistinctKeys ==
    prog = "aggregate" /\ aggPc \in {"loop", "done"} =>
        endpointCount = Cardinality(DOMAIN endpointMap)

\* the least and the greatest of a non-empty set of integers
Least(S) == CHOOSE x \in S : \A y \in S : x <= y
Greatest(S) == CHOOSE x \in S : \A y \in S : x >= y

\* C23: the aggregate's StartTime is the earliest StartTime among the source
\* snapshots and its EndTime the latest EndTime among them, whatever the
\* wall-clock time at which the aggregation runs.
C23_TimesSpanSources ==
    prog = "aggregate" /\ aggPc = "done" =>
        /\ resultTimes.StartTime
               = Least({sourceTimes[i].StartTime : i \in DOMAIN sourceTimes})
        /\ resultTimes.EndTime
               = Greatest({sourceTimes[i].EndTime : i \in DOMAIN sourceTimes})

\* C24: a metrics-report run that finds threshold breaches returns an error
\* only when the configuration has soft_fail = false and the user asked for
\* --fail-on-breaches; in every other combination the command succeeds.
C24_SoftFailSuppressesError ==
    prog = "thresholds" /\ DOMAIN breachCheck # {} /\ validation.breaches # {} =>
        (breachCheck.err <=> ~tc.Options.SoftFail /\ breachCheck.failOnBreaches)

(***************************************************************************)
(* AggregateFiles: one goroutine per input file reads and parses it and    *)
(* sends a fileResult on the results channel; the caller waits for all of  *)
(* them, closes the channel, drains it into allMetrics and hands that to   *)
(* AggregateMetrics.  A *Metrics is a function whose domain holds          *)
(* "RootGroup" only when the pointer is not nil; a nil error is "".        *)
(***************************************************************************)
MaxFiles == 3
MaxCalls == 2

\* ioutil.ReadFile, then json.Unmarshal into a Metrics: a key the object does
\* not have leaves its field at the zero value, and that is no error
ReadMetricsFile(file) ==
    IF ~file.exists
    THEN [metrics |-> <<>>, err |-> "open " \o file.name \o ": no such file or directory"]
    ELSE IF ~file.valid
    THEN [metrics |-> <<>>, err |-> "invalid JSON in " \o file.name]
    ELSE [metrics |-> IF "root_group" \in DOMAIN file.object
                      THEN [RootGroup |-> file.object["root_group"],
                            Metrics |-> file.object["metrics"]]
                      ELSE [Metrics |-> file.object["metrics"]],
          err |-> ""]

InitFiles ==
    /\ prog = "files"
    /\ IdleKernel /\ IdleAssoc /\ IdleAggregate /\ IdleDPN /\ IdleCollector /\ IdleNormalize
    /\ IdleThresholds
    /\ LET OnDisk ==
               {[name |-> "a.json", exists |-> TRUE, valid |-> TRUE,
                 object |-> [root_group |-> [checks |-> {"status_ok"}], metrics |-> {"users"}]],
                [name |-> "b.json", exists |-> TRUE, valid |-> TRUE,
                 object |-> [root_group |-> [checks |-> {}], metrics |-> {"health"}]],
                [name |-> "c.json", exists |-> FALSE, valid |-> FALSE, object |-> <<>>],
                [name |-> "d.json", exists |-> TRUE, valid |-> FALSE, object |-> <<>>],
                [name |-> "e.json", exists |-> TRUE, valid |-> TRUE,
                 object |-> [metrics |-> {"orders"}]]}
       IN \E n \in 0..MaxFiles :
              /\ inputFiles \in [1..n -> OnDisk]
              /\ \A i, j \in 1..n : i # j => inputFiles[i].name # inputFiles[j].name
    /\ workers = [i \in DOMAIN inputFiles |-> "unborn"]
    /\ wg = 0 /\ results = <<>> /\ filesPc = "spawn" /\ allMetrics = <<>>
    /\ outcome = <<>> /\ written = FALSE /\ calls = <<>>

\* for _, file := range inputFiles { wg.Add(1); go func(filename string) {...}(file) }
SpawnWorker ==
    /\ prog = "files" /\ filesPc = "spawn"
    /\ \E i \in DOMAIN inputFiles :
        /\ workers[i] = "unborn"
        /\ \A j \in 1..(i - 1) : workers[j] # "unborn"
        /\ workers' = [workers EXCEPT ![i] = "running"]
        /\ wg' = wg + 1
    /\ UNCHANGED <<prog, kernelVars, assocVars, aggVars, dpnVars, mcVars, normVars, thVars,
                   inputFiles, results, filesPc, allMetrics, outcome, written, calls>>

\* the goroutine when results is made without a buffer: the send waits for
\* the caller to be receiving
IngestWorkerUnbuffered(i) ==
    /\ prog = "files"
    /\ workers[i] = "running"
    /\ filesPc = "range"
    /\ LET read == ReadMetricsFile(inputFiles[i])
       IN results' = Append(results, [metrics |-> read.metrics, err |-> read.err,
                                      file |-> inputFiles[i].name])
    /\ workers' = [workers EXCEPT ![i] = "done"]
    /\ wg' = wg - 1
    /\ UNCHANGED <<prog, kernelVars, assocVars, aggVars, dpnVars, mcVars, normVars, thVars,
                   inputFiles, filesPc, allMetrics, outcome, written, calls>>

\* the goroutine: ReadMetricsFile, the send on results, which waits while the
\* channel's buffer of len(inputFiles) is full, then the deferred wg.Done
IngestWorker(i) ==
    /\ prog = "files"
    /\ workers[i] = "running"
    /\ Len(results) < Len(inputFiles)
    /\ LET read == ReadMetricsFile(inputFiles[i])
       IN results' = Append(results, [metrics |-> read.metrics, err |-> read.err,
                                      file |-> inputFiles[i].name])
    /\ workers' = [workers EXCEPT ![i] = "done"]
    /\ wg' = wg - 1
    /\ UNCHANGED <<prog, kernelVars, assocVars, aggVars, dpnVars, mcVars, normVars, thVars,
                   inputFiles, filesPc, allMetrics, outcome, written, calls>>

\* wg.Wait(); close(results)
WaitAndClose ==
    /\ prog = "files" /\ filesPc = "spawn"
    /\ \A i \in DOMAIN inputFiles : workers[i] # "unborn"
    /\ wg = 0
    /\ filesPc' = "range"
    /\ UNCHANGED <<prog, kernelVars, assocVars, aggVars, dpnVars, mcVars, normVars, thVars,
                   inputFiles, workers, wg, results, allMetrics, outcome, written, calls>>

\* a drain that passes over a result with an error
ReceiveResultSkipErrors ==
    /\ prog = "files" /\ filesPc = "range"
    /\ results # <<>>
    /\ allMetrics' = IF Head(results).err # "" THEN allMetrics
                     ELSE Append(allMetrics, Head(results).metrics)
    /\ results' = Tail(results)
    /\ UNCHANGED <<prog, kernelVars, assocVars, aggVars, dpnVars, mcVars, normVars, thVars,
                   inputFiles, workers, wg, outcome, filesPc, written, calls>>

\* one turn of for result := range results
ReceiveResult ==
    /\ prog = "files" /\ filesPc = "range"
    /\ results # <<>>
    /\ LET fileResult == Head(results)
       IN IF fileResult.err # ""
          THEN /\ outcome' = [kind |-> "error", file |-> fileResult.file, metricsList |-> <<>>]
               /\ filesPc' = "returned"
               /\ UNCHANGED allMetrics
          ELSE /\ allMetrics' = Append(allMetrics, fileResult.metrics)
               /\ UNCHANGED <<outcome, filesPc>>
    /\ results' = Tail(results)
    /\ UNCHANGED <<prog, kernelVars, assocVars, aggVars, dpnVars, mcVars, normVars, thVars,
                   inputFiles, workers, wg, written, calls>>

\* return AggregateMetrics(allMetrics, config), as far as its outcome: the
\* error for an empty list, and the fold, which reads metrics.RootGroup.Checks
\* of every snapshot in the order of allMetrics
ReturnAggregate ==
    /\ prog = "files" /\ filesPc = "range"
    /\ results = <<>>
    /\ outcome' =
           IF Len(allMetrics) = 0
           THEN [kind |-> "error", file |-> "", metricsList |-> <<>>]
           ELSE IF \E k \in DOMAIN allMetrics : "RootGroup" \notin DOMAIN allMetrics[k]
           THEN [kind |-> "panic", file |-> "", metricsList |-> <<>>]
           ELSE [kind |-> "aggregate", file |-> "", metricsList |-> allMetrics]
    /\ filesPc' = "returned"
    /\ UNCHANGED <<prog, kernelVars, assocVars, aggVars, dpnVars, mcVars, normVars, thVars,
                   inputFiles, workers, wg, results, allMetrics, written, calls>>

\* runMetricsReport after AggregateFiles: it returns the error, or goes on to
\* WriteOutput
WriteOutput ==
    /\ prog = "files" /\ filesPc = "returned"
    /\ outcome.kind = "aggregate"
    /\ ~written
    /\ written' = TRUE
    /\ UNCHANGED <<prog, kernelVars, assocVars, aggVars, dpnVars, mcVars, normVars, thVars,
                   inputFiles, workers, wg, results, filesPc, allMetrics, outcome, calls>>

\* AggregateFiles called once more on the same inputFiles, by a process that
\* the panic of AggregateMetrics has not ended
AggregateFilesAgain ==
    /\ prog = "files" /\ filesPc = "returned"
    /\ outcome.kind # "panic"
    /\ Len(calls) + 1 < MaxCalls
    /\ calls' = Append(calls, outcome)
    /\ workers' = [i \in DOMAIN inputFiles |-> "unborn"]
    /\ wg' = 0 /\ results' = <<>> /\ filesPc' = "spawn" /\ allMetrics' = <<>>
    /\ outcome' = <<>> /\ written' = FALSE
    /\ UNCHANGED <<prog, kernelVars, assocVars, aggVars, dpnVars, mcVars, normVars, thVars,
                   inputFiles>>

NextFiles ==
    \/ SpawnWorker
    \/ \E i \in DOMAIN inputFiles : IngestWorker(i)
    \/ WaitAndClose
    \/ ReceiveResult
    \/ ReturnAggregate
    \/ WriteOutput
    \/ AggregateFilesAgain

SpecFiles == InitFiles /\ [][NextFiles]_vars

\* the Go scheduler runs every goroutine that is not blocked: each ingest
\* goroutine and the calling goroutine keep taking their steps; whether the
\* caller writes the report or calls again is left to it
SpecFilesLive ==
    /\ SpecFiles
    /\ \A i \in 1..MaxFiles : WF_vars(i \in DOMAIN inputFiles /\ IngestWorker(i))
    /\ WF_vars(SpawnWorker \/ WaitAndClose \/ ReceiveResult \/ ReturnAggregate)

\* the input files that ReadMetricsFile fails to read or to parse
FailedFiles == {i \in DOMAIN inputFiles : ReadMetricsFile(inputFiles[i]).err # ""}

\* C21: when reading or parsing an input file fails, no report is written, and
\* once AggregateFiles has returned it has returned an error that names a file
\* that failed, and no aggregate, whatever else was read and in whatever order
\* the workers finished
C21_ErrorNamesFailedFile ==
    (prog = "files" /\ FailedFiles # {}) =>
        /\ ~written
        /\ filesPc = "returned" =>
               /\ outcome.kind = "error"
               /\ outcome.metricsList = <<>>
               /\ \E i \in FailedFiles : outcome.file = inputFiles[i].name

\* the first file listed is missing, its worker sent last, and the two files
\* read before it were drained into allMetrics before the error was met
C21_Witness ==
    /\ prog = "files" /\ filesPc = "returned"
    /\ Len(inputFiles) = 3 /\ FailedFiles = {1}
    /\ Len(allMetrics) = 2
    /\ outcome.kind = "error" /\ outcome.file = inputFiles[1].name

\* C22: every call of AggregateFiles on the same input files that returns an
\* aggregate has folded the snapshots in the same order
C22_FoldOrderFixed ==
    (prog = "files" /\ filesPc = "returned" /\ outcome.kind = "aggregate") =>
        \A k \in DOMAIN calls :
            calls[k].kind = "aggregate" => calls[k].metricsList = outcome.metricsList

\* the input files that parse as JSON and have no root_group
FilesWithoutRootGroup ==
    {i \in DOMAIN inputFiles :
        /\ inputFiles[i].exists /\ inputFiles[i].valid
        /\ "root_group" \notin DOMAIN inputFiles[i].object}

\* C28: when an input file parses as JSON and has no root_group, ReadMetricsFile
\* gives an error for it, and AggregateFiles returns an error that names a
\* file that was rejected: it neither panics nor returns an aggregate
C28_MissingRootGroupRejected ==
    (prog = "files" /\ FilesWithoutRootGroup # {}) =>
        /\ \A i \in FilesWithoutRootGroup : ReadMetricsFile(inputFiles[i]).err # ""
        /\ filesPc = "returned" =>
               /\ outcome.kind = "error"
               /\ \E i \in FilesWithoutRootGroup \cup FailedFiles :
                      outcome.file = inputFiles[i].name

\* no ingest worker is waiting to send: the channel has room for its result
NoWorkerBlocked ==
    \A i \in DOMAIN workers : workers[i] = "running" => Len(results) < Len(inputFiles)
AllWorkersDone == \A i \in DOMAIN workers : workers[i] = "done"

====
